---- MODULE Spec2Model ----
(***************************************************************************)
(* Verification model of the adaptive decision-policy engine of the cyber  *)
(* defense simulator: the two ContextualBandit engines                     *)
(* (rl/contextual_bandit.py, "cb"; rl/rl_core.py, "core"), the two reward  *)
(* calculators, policy persistence (save/load), the orchestrator's         *)
(* simulation loop and the API server's concurrent episode threads.        *)
(*                                                                         *)
(* Floats are modelled as fixed-point integers in thousandths (0.4 is      *)
(* 400, a time_to_remediate of 12.5 minutes is 12500); products and        *)
(* quotients are rounded toward zero.                                      *)
(***************************************************************************)
EXTENDS Integers, Sequences, FiniteSets, TLC

VARIABLES
    config,      \* Config.RL_* of the running process (runtime configuration)
    rl_agent,    \* the ContextualBandit engine (all of its attributes)
    snapshot,    \* the pickle file written by save(); <<>> when none exists
    history,     \* history: engine and config at save(); running, saved or loaded
    lastOp,      \* history: the last call, its arguments and its result
    outcome,     \* reward spec: the Outcome handed to calculate_reward
    calculator,  \* reward spec: which RewardCalculator is wired in
    feedback,    \* reward spec: the RewardFeedback returned
    orch,        \* simulation spec: the orchestrator (loop position, metrics)
    threads,     \* concurrency spec: each executor thread's position and locals
    trials       \* concurrency spec: the random draws fixed for each trial

vars == <<config, rl_agent, snapshot, history, lastOp, outcome, calculator,
          feedback, orch, threads, trials>>

-----------------------------------------------------------------------------
(* Fixed-point arithmetic                                                  *)

Milli == 10 * 10 * 10

\* a * b for two fixed-point numbers, rounded toward zero
FMul(a, b) ==
    IF a * b >= 0 THEN (a * b) \div Milli ELSE 0 - ((0 - (a * b)) \div Milli)

Max2(a, b) == IF a >= b THEN a ELSE b
Min2(a, b) == IF a <= b THEN a ELSE b

\* max(d.values()) of a non-empty dict d
MaxValue(d) == CHOOSE m \in {d[k] : k \in DOMAIN d} : \A k \in DOMAIN d : d[k] <= m

RECURSIVE SumOver(_, _)
\* sum(d[k] for k in keys)
SumOver(d, keys) ==
    IF keys = {} THEN 0
    ELSE LET k == CHOOSE x \in keys : TRUE IN d[k] + SumOver(d, keys \ {k})

\* sum(d.values())
SumValues(d) == SumOver(d, DOMAIN d)

\* set of the elements of a list
Elems(seq) == {seq[i] : i \in 1..Len(seq)}

\* an optional argument: <<>> is None, <<v>> is the value v
None == << >>
Some(v) == <<v>>

\* Python's `arg or default`: the default replaces None and every falsy value
OrDefault(arg, default) == IF arg = None \/ arg[1] = 0 THEN default ELSE arg[1]

-----------------------------------------------------------------------------
(* Bounds of the model                                                     *)

MaxSelects == 2      \* select_action calls per engine lifetime
StoreMaxOps == 2     \* training calls around a save in the persistence spec
MaxUpdates == 1      \* update calls counted by update_count
MaxDecays == 2       \* decay_epsilon calls counted by episode_count
MaxEpisodes == 2     \* num_episodes of a simulation run

-----------------------------------------------------------------------------
(* Data model (core/data_models.py)                                        *)

BLOCK_IP == "block_ip"
ISOLATE_HOST == "isolate_host"
NOTIFY_TEAM == "notify_team"

RemediationAction ==
    {"block_ip", "lock_account", "kill_process", "isolate_host", "notify_team",
     "scan_system", "reset_credentials", "quarantine_file"}

\* the contexts the model feeds to the engine
StateInputs ==
    { [incident_severity |-> "critical", attack_type |-> "lateral_movement",
       confidence_level |-> 900, num_affected_assets |-> 5],
      [incident_severity |-> "low", attack_type |-> "phishing",
       confidence_level |-> 300, num_affected_assets |-> 1] }

\* the action list the engine is constructed with, and the lists a caller
\* may hand to load
InitialActions == <<BLOCK_IP, ISOLATE_HOST>>
ActionLists == { InitialActions, <<ISOLATE_HOST, NOTIFY_TEAM>> }

\* values random.random() / np.random.random() can return, in [0, 1)
RandomDraws == {0, 999}

\* rewards handed to update
Rewards == {0 - 1000, 1000}

-----------------------------------------------------------------------------
(* Runtime configuration (core/config.py)                                  *)

RL_LEARNING_RATE == 100
RL_EPSILON == 100
RL_EPSILON_DECAY == 995
RL_MIN_EPSILON == 10
RL_DISCOUNT_FACTOR == 950
RL_Q_INIT == 0

\* Config.get_rl_config() with the defaults of the environment variables
DefaultRLConfig ==
    [learning_rate |-> RL_LEARNING_RATE, epsilon |-> RL_EPSILON,
     epsilon_decay |-> RL_EPSILON_DECAY, min_epsilon |-> RL_MIN_EPSILON,
     discount_factor |-> RL_DISCOUNT_FACTOR, q_init |-> RL_Q_INIT]

\* the deployments considered: the defaults, and RL_MIN_EPSILON=0.2
RLConfigs == { DefaultRLConfig, [DefaultRLConfig EXCEPT !.min_epsilon = 200] }

-----------------------------------------------------------------------------
(* The engines: construction                                               *)

CORE_LEARNING_RATE == 500
CORE_EPSILON == 400
CORE_EPSILON_DECAY == 990
CORE_MIN_EPSILON == 150
CORE_Q_INIT == 700
CORE_DISCOUNT_FACTOR == 950
UCB_C == 300
CLOSE_TOLERANCE == 100

\* contextual_bandit.ContextualBandit.__init__: every hyperparameter is an
\* optional argument, replaced by the config value through `arg or config[..]`
NewCB(actions, learning_rate, epsilon, epsilon_decay, min_epsilon, discount_factor, q_init, cfg) ==
    [variant |-> "cb",
     actions |-> actions,
     learning_rate |-> OrDefault(learning_rate, cfg.learning_rate),
     epsilon |-> OrDefault(epsilon, cfg.epsilon),
     epsilon_decay |-> OrDefault(epsilon_decay, cfg.epsilon_decay),
     min_epsilon |-> OrDefault(min_epsilon, cfg.min_epsilon),
     discount_factor |-> OrDefault(discount_factor, cfg.discount_factor),
     q_table |-> << >>,
     q_init |-> OrDefault(q_init, cfg.q_init),
     episode_count |-> 0,
     update_count |-> 0,
     action_counts |-> [a \in Elems(actions) |-> 0]]

\* rl_core.ContextualBandit.__init__(actions, **kwargs): the keyword
\* arguments are accepted and never read
NewCore(actions, kwargs) ==
    [variant |-> "core",
     actions |-> actions,
     learning_rate |-> CORE_LEARNING_RATE,
     epsilon |-> CORE_EPSILON,
     initial_epsilon |-> CORE_EPSILON,
     epsilon_decay |-> CORE_EPSILON_DECAY,
     min_epsilon |-> CORE_MIN_EPSILON,
     q_init |-> CORE_Q_INIT,
     discount_factor |-> CORE_DISCOUNT_FACTOR,
     q_table |-> << >>,
     episode_count |-> 0,
     update_count |-> 0,
     action_counts |-> [a \in Elems(actions) |-> 0],
     state_visit_counts |-> << >>]

-----------------------------------------------------------------------------
(* The engines: state encoding and lazy row creation                       *)

\* the asset-count range of contextual_bandit._state_to_key
AssetsBin(n) ==
    IF n <= 2 THEN "0-2"
    ELSE IF n <= 5 THEN "3-5"
    ELSE IF n <= 10 THEN "6-10"
    ELSE IF n <= 20 THEN "11-20"
    ELSE "21+"

\* severity_map of rl_core._state_to_key (.get(.., "high") for other values)
SimpleSeverity(sev) ==
    IF sev = "low" THEN "low"
    ELSE IF sev = "medium" THEN "medium"
    ELSE "high"

\* a key that keeps the exact confidence and asset count
_state_to_key_Unbinned(agent, state) ==
    <<state.incident_severity, state.attack_type,
      state.confidence_level, state.num_affected_assets>>

\* _state_to_key: the key is the tuple of the fields the f-string joins
_state_to_key(agent, state) ==
    IF agent.variant = "cb"
    THEN <<state.incident_severity, state.attack_type,
           (state.confidence_level * 20) \div Milli,
           AssetsBin(state.num_affected_assets)>>
    ELSE <<SimpleSeverity(state.incident_severity), state.attack_type>>

\* a row that holds the first action of the list only
NewRow_FirstActionOnly(agent) == [a \in {agent.actions[1]} |-> agent.q_init]

\* a fresh row: {action: self.q_init for action in self.actions}
NewRow(agent) == [a \in Elems(agent.actions) |-> agent.q_init]

\* _get_q_values: the engine after the call, the row returned, and whether
\* the call raised (rl_core: KeyError on a row without a visit counter)
_get_q_values(agent, state) ==
    LET key == _state_to_key(agent, state)
        isNew == key \notin DOMAIN agent.q_table
        withRow == IF isNew
                   THEN [agent EXCEPT !.q_table = @ @@ (key :> NewRow(agent))]
                   ELSE agent
    IN  IF agent.variant = "cb"
        THEN [raised |-> FALSE, agent |-> withRow, q_values |-> withRow.q_table[key]]
        ELSE LET withCnt == IF isNew
                            THEN [withRow EXCEPT !.state_visit_counts = @ @@ (key :> 0)]
                            ELSE withRow
             IN  IF key \notin DOMAIN withCnt.state_visit_counts
                 THEN [raised |-> TRUE, agent |-> withCnt, q_values |-> << >>]
                 ELSE [raised |-> FALSE,
                       agent |-> [withCnt EXCEPT !.state_visit_counts[key] = @ + 1],
                       q_values |-> withCnt.q_table[key]]

-----------------------------------------------------------------------------
(* The engines: action selection                                           *)

\* ln(n) in millionths, n = 1..16
LnMicro ==
    <<0, 693147, 1098612, 1386294,
      1609438, 1791759, 1945910, 2079442,
      2197225, 2302585, 2397895, 2484907,
      2564949, 2639057, 2708050, 2772589>>

RECURSIVE ISqrtIn(_, _, _)
\* the largest k in lo..hi with k * k <= n
ISqrtIn(n, lo, hi) ==
    IF lo >= hi THEN lo
    ELSE LET mid == (lo + hi + 1) \div 2
         IN  IF mid * mid <= n THEN ISqrtIn(n, mid, hi) ELSE ISqrtIn(n, lo, mid - 1)

\* floor(sqrt(n)), for n below 2000 * 2000
ISqrt(n) == ISqrtIn(n, 0, Min2(n, 2000))

\* the exploration bonus 0.3 * sqrt(log(total_visits + 1) / (action_visits + 1))
UCBBonus(total_visits, action_visits) ==
    IF total_visits > 0
    THEN FMul(UCB_C, ISqrt(LnMicro[total_visits + 1] \div (action_visits + 1)))
    ELSE UCB_C

\* action_counts.get(action, 0)
ActionVisits(agent, a) ==
    IF a \in DOMAIN agent.action_counts THEN agent.action_counts[a] ELSE 0

\* ucb_values[action] of rl_core.select_action
UCBValue(agent, q_values, key, a) ==
    q_values[a] + UCBBonus(agent.state_visit_counts[key], ActionVisits(agent, a))

\* max(ucb_values, key=ucb_values.get): the first action, in the order of
\* self.actions, whose score no other action exceeds
UCBArgMax(agent, q_values, key) ==
    LET n == Len(agent.actions)
        score(i) == UCBValue(agent, q_values, key, agent.actions[i])
        best == CHOOSE i \in 1..n :
                    /\ \A j \in 1..n : score(j) <= score(i)
                    /\ \A j \in 1..(i - 1) : score(j) < score(i)
    IN  agent.actions[best]

\* a band five times as wide as the tolerance
CloseActions_WideBand(q_values) ==
    {a \in DOMAIN q_values : q_values[a] >= MaxValue(q_values) - 5 * CLOSE_TOLERANCE}

\* close_actions of contextual_bandit.select_action
CloseActions(q_values) ==
    {a \in DOMAIN q_values : q_values[a] >= MaxValue(q_values) - CLOSE_TOLERANCE}

\* mutant of ExploreChoices: the draw is made over the whole enum
ExploreChoices_AnyAction(agent) == RemediationAction

\* the actions the exploration branch can draw: random.choice(self.actions)
ExploreChoices(agent) == Elems(agent.actions)

\* an exploitation branch that draws from the whole action list
ExploitChoices_AnyListed(agent, q_values, key) == Elems(agent.actions)

\* the actions the exploitation branch can return for the row q_values
\* (contextual_bandit: any close action when several are close, drawn with a
\* positive softmax probability, else the one maximum; rl_core: the UCB
\* maximum); {} when the branch raises KeyError on a row lacking an action
ExploitChoices(agent, q_values, key) ==
    IF agent.variant = "cb"
    THEN CloseActions(q_values)
    ELSE IF Elems(agent.actions) \subseteq DOMAIN q_values
         THEN {UCBArgMax(agent, q_values, key)}
         ELSE {}

\* the actions select_action can pick for the random draw r
SelectChoices(agent, state, r) ==
    LET g == _get_q_values(agent, state)
    IN  IF g.raised THEN {}
        ELSE IF r < agent.epsilon THEN ExploreChoices(g.agent)
        ELSE ExploitChoices(g.agent, g.q_values, _state_to_key(agent, state))

\* select_action(state) with random draw r and random pick `pick`: the
\* engine after the call, whether it raised, and the RLDecision returned
select_action(agent, state, r, pick) ==
    LET g == _get_q_values(agent, state)
        is_exploration == r < agent.epsilon
    IN  IF g.raised \/ SelectChoices(agent, state, r) = {}
           \/ pick \notin DOMAIN g.agent.action_counts
        THEN [raised |-> TRUE, agent |-> g.agent, decision |-> << >>]
        ELSE [raised |-> FALSE,
              agent |-> [g.agent EXCEPT !.action_counts[pick] = @ + 1],
              decision |-> [state |-> state,
                            selected_action |-> pick,
                            q_values |-> g.q_values,
                            epsilon |-> agent.epsilon,
                            is_exploration |-> is_exploration]]

-----------------------------------------------------------------------------
(* The engines: learning and exploration decay                             *)

\* an update that steps by 1 + learning_rate of the error, past the target
update_Overshoot(agent, state, action, reward, next_state) ==
    [raised |-> FALSE,
     agent |-> [agent EXCEPT
                   !.q_table[_state_to_key(agent, state)][action] =
                       @ + FMul(Milli + agent.learning_rate, reward - @),
                   !.update_count = @ + 1],
     td_error |-> reward - agent.q_table[_state_to_key(agent, state)][action]]

\* an update that also counts the action as selected once more
update_CountsSelection(agent, state, action, reward, next_state) ==
    LET key == _state_to_key(agent, state)
    IN  IF key \notin DOMAIN agent.q_table \/ action \notin DOMAIN agent.q_table[key]
        THEN [raised |-> TRUE, agent |-> agent, td_error |-> 0]
        ELSE [raised |-> FALSE,
              agent |-> [agent EXCEPT
                            !.q_table[key][action] = @ + FMul(agent.learning_rate, reward - @),
                            !.update_count = @ + 1,
                            !.action_counts[action] = @ + 1],
              td_error |-> reward - agent.q_table[key][action]]

\* update(state, action, reward, next_state): the engine after the call,
\* whether it raised KeyError, and the td_error returned.  next_state is
\* None or Some(state)
update(agent, state, action, reward, next_state) ==
    LET key == _state_to_key(agent, state)
    IN  IF key \notin DOMAIN agent.q_table \/ action \notin DOMAIN agent.q_table[key]
        THEN [raised |-> TRUE, agent |-> agent, td_error |-> 0]
        ELSE
        LET current_q == agent.q_table[key][action]
            bootstrap == agent.variant = "cb" /\ next_state # None
            g == _get_q_values(agent, next_state[1])
            agent1 == IF bootstrap THEN g.agent ELSE agent
            target == IF bootstrap
                      THEN reward + FMul(agent.discount_factor, MaxValue(g.q_values))
                      ELSE reward
            td_error == target - current_q
            new_q == current_q + FMul(agent.learning_rate, td_error)
        IN  [raised |-> FALSE,
             agent |-> [agent1 EXCEPT !.q_table[key][action] = new_q,
                                      !.update_count = @ + 1],
             td_error |-> td_error]

\* mutant of decay_epsilon: the floor is not applied
decay_epsilon_NoFloor(agent) ==
    [agent EXCEPT !.epsilon = FMul(agent.epsilon, agent.epsilon_decay),
                  !.episode_count = @ + 1]

\* decay_epsilon()
decay_epsilon(agent) ==
    [agent EXCEPT !.epsilon = Max2(agent.min_epsilon, FMul(agent.epsilon, agent.epsilon_decay)),
                  !.episode_count = @ + 1]

-----------------------------------------------------------------------------
(* Persistence                                                             *)

\* save(filepath): the dict that is pickled
save(agent) ==
    [q_table |-> agent.q_table,
     epsilon |-> agent.epsilon,
     episode_count |-> agent.episode_count,
     update_count |-> agent.update_count,
     action_counts |-> agent.action_counts,
     config |-> IF agent.variant = "cb"
                THEN [learning_rate |-> agent.learning_rate,
                      epsilon_decay |-> agent.epsilon_decay,
                      min_epsilon |-> agent.min_epsilon,
                      discount_factor |-> agent.discount_factor,
                      q_init |-> agent.q_init]
                ELSE [learning_rate |-> agent.learning_rate,
                      initial_epsilon |-> agent.initial_epsilon,
                      epsilon_decay |-> agent.epsilon_decay,
                      min_epsilon |-> agent.min_epsilon,
                      q_init |-> agent.q_init,
                      discount_factor |-> agent.discount_factor]]

\* the engine handed to the stored tables: the part of load() that both
\* classes share (agent.q_table = state['q_table'], ...)
InstallTables(agent, state) ==
    [agent EXCEPT !.q_table = state.q_table,
                  !.episode_count = state.episode_count,
                  !.update_count = state.update_count,
                  !.action_counts = state.action_counts]

\* contextual_bandit.ContextualBandit.load(filepath, actions)
load_cb(state, actions, cfg) ==
    LET min_epsilon == Max2(state.config.min_epsilon, cfg.min_epsilon)
        loaded_epsilon == IF state.epsilon < min_epsilon THEN min_epsilon
                          ELSE state.epsilon
        agent == NewCB(actions,
                       Some(state.config.learning_rate),
                       Some(loaded_epsilon),
                       Some(state.config.epsilon_decay),
                       Some(min_epsilon),
                       Some(state.config.discount_factor),
                       Some(state.config.q_init),
                       cfg)
    IN  InstallTables(agent, state)

\* rl_core.ContextualBandit.load(filepath, actions)
load_core(state, actions) ==
    LET agent == NewCore(actions,
                         [learning_rate |-> state.config.learning_rate,
                          epsilon |-> state.epsilon,
                          epsilon_decay |-> state.config.epsilon_decay,
                          min_epsilon |-> state.config.min_epsilon,
                          q_init |-> state.config.q_init])
        withGamma == [agent EXCEPT !.discount_factor =
                         IF "discount_factor" \in DOMAIN state.config
                         THEN state.config.discount_factor
                         ELSE CORE_DISCOUNT_FACTOR]
    IN  InstallTables(withGamma, state)

\* cls.load(filepath, actions) for the class `variant`
load(variant, state, actions, cfg) ==
    IF variant = "cb" THEN load_cb(state, actions, cfg) ELSE load_core(state, actions)

-----------------------------------------------------------------------------
(* Specification of one engine under its public operations                 *)

\* constructor arguments of contextual_bandit.ContextualBandit the model
\* draws from: none given; a floor that is reached by the first decay; an
\* initial epsilon below min_epsilon
CBArgs ==
    { [learning_rate |-> None, epsilon |-> None, epsilon_decay |-> None,
       min_epsilon |-> None],
      [learning_rate |-> Some(500), epsilon |-> Some(300), epsilon_decay |-> Some(500),
       min_epsilon |-> Some(200)],
      [learning_rate |-> None, epsilon |-> Some(50), epsilon_decay |-> Some(900),
       min_epsilon |-> Some(100)] }

\* the engines a caller can construct
NewEngines(cfg) ==
    {NewCore(InitialActions, << >>)}
    \cup {NewCB(InitialActions, a.learning_rate, a.epsilon, a.epsilon_decay,
                a.min_epsilon, None, None, cfg) : a \in CBArgs}

\* the variables of the other specifications, which this one leaves alone
Idle == <<outcome, calculator, feedback, orch, threads, trials>>
IdleInit ==
    /\ outcome = << >>
    /\ calculator = "none"
    /\ feedback = << >>
    /\ orch = << >>
    /\ threads = << >>
    /\ trials = << >>

\* a process with configuration cfg has constructed its engine
Constructed(cfg) ==
    /\ config = cfg
    /\ rl_agent \in NewEngines(config)
    /\ snapshot = << >>
    /\ history = [saved |-> << >>, phase |-> "running"]
    /\ lastOp = [op |-> "init"]
    /\ IdleInit

Init == Constructed(DefaultRLConfig)

\* number of select_action calls the engine's counters account for: the
\* selections counted per action and, in rl_core, the visits counted per state
Selections(agent) ==
    IF agent.variant = "core"
    THEN Max2(SumValues(agent.action_counts), SumValues(agent.state_visit_counts))
    ELSE SumValues(agent.action_counts)

\* calls counted by the engine so far
OpsDone == Selections(rl_agent) + rl_agent.update_count + rl_agent.episode_count

\* a caller runs select_action(state); r and pick are the random outcomes
Select(state, r) ==
    /\ Selections(rl_agent) < MaxSelects
    /\ LET choices == SelectChoices(rl_agent, state, r)
       IN  \E pick \in (IF choices = {} THEN {"none"} ELSE choices) :
             LET res == select_action(rl_agent, state, r, pick)
             IN  /\ rl_agent' = res.agent
                 /\ lastOp' = [op |-> "select_action", state |-> state, r |-> r,
                               raised |-> res.raised, decision |-> res.decision]
    /\ UNCHANGED <<config, snapshot, history, Idle>>

\* a caller runs update(state, action, reward, next_state)
Update(state, action, reward, next_state) ==
    /\ rl_agent.update_count < MaxUpdates
    /\ LET res == update(rl_agent, state, action, reward, next_state)
       IN  /\ rl_agent' = res.agent
           /\ lastOp' = [op |-> "update", state |-> state, action |-> action,
                         reward |-> reward, next_state |-> next_state,
                         raised |-> res.raised, td_error |-> res.td_error]
    /\ UNCHANGED <<config, snapshot, history, Idle>>

\* a caller runs decay_epsilon()
Decay ==
    /\ rl_agent.episode_count < MaxDecays
    /\ rl_agent' = decay_epsilon(rl_agent)
    /\ lastOp' = [op |-> "decay_epsilon"]
    /\ UNCHANGED <<config, snapshot, history, Idle>>

\* the run ends with orchestrator.save_results: save(filepath)
Save ==
    /\ history.phase = "running"
    /\ snapshot' = save(rl_agent)
    /\ history' = [history EXCEPT !.saved = [agent |-> rl_agent, config |-> config],
                                  !.phase = "saved"]
    /\ lastOp' = [op |-> "save"]
    /\ UNCHANGED <<config, rl_agent, Idle>>

\* the next process starts from the snapshot: cls.load(filepath, actions)
Load(actions) ==
    /\ history.phase = "saved"
    /\ rl_agent' = load(rl_agent.variant, snapshot, actions, config)
    /\ history' = [history EXCEPT !.phase = "loaded"]
    /\ lastOp' = [op |-> "load", actions |-> actions]
    /\ UNCHANGED <<config, snapshot, Idle>>

\* the deployment's RL_* environment changes between a save and a load
Reconfigure(cfg) ==
    /\ history.phase = "saved"
    /\ cfg # config
    /\ config' = cfg
    /\ lastOp' = [op |-> "reconfigure"]
    /\ UNCHANGED <<rl_agent, snapshot, history, Idle>>


Next ==
    \/ \E state \in StateInputs, r \in RandomDraws : Select(state, r)
    \/ \E state \in StateInputs, action \in Elems(rl_agent.actions), reward \in Rewards,
          next_state \in {None} \cup {Some(s) : s \in StateInputs} :
          Update(state, action, reward, next_state)
    \/ Decay

Spec == Init /\ [][Next]_vars

-----------------------------------------------------------------------------
(* Specification of persistence: an engine is trained, saved and loaded    *)

\* a training call (select_action, update or decay_epsilon) within the budget
Train ==
    /\ history.phase \in {"running", "loaded"}
    /\ OpsDone < StoreMaxOps
    /\ Next

NextStore ==
    \/ Train
    \/ Save
    \/ \E actions \in ActionLists : Load(actions)
    \/ \E cfg \in RLConfigs : Reconfigure(cfg)

InitStore == \E cfg \in RLConfigs : Constructed(cfg)

SpecStore == InitStore /\ [][NextStore]_vars

-----------------------------------------------------------------------------
(* Reward shaping                                                          *)

REWARD_SUCCESS == 1000
REWARD_FAILURE == -1000
REWARD_FALSE_POSITIVE == -500
REWARD_COLLATERAL_DAMAGE == -300
REWARD_UNCERTAINTY == 0
TIME_PENALTY_FACTOR == 10
FAST_RESPONSE == 10000
SPEED_BONUS_SHARE == 200
CORE_REWARD_SUCCESS == 1000
CORE_REWARD_FAILURE == -1000
CORE_TIME_PENALTY_FACTOR == 10
CORE_SPEED_BONUS == 500

\* a / b for two fixed-point numbers, rounded toward zero (a >= 0, b > 0)
FDiv(a, b) == (a * Milli) \div b

\* reward_calculator.RewardCalculator(): every reward is `arg or config[..]`
NewRewardCalculator(reward_success, reward_failure, reward_false_positive, reward_collateral_damage, reward_uncertainty) ==
    [reward_success |-> OrDefault(reward_success, REWARD_SUCCESS),
     reward_failure |-> OrDefault(reward_failure, REWARD_FAILURE),
     reward_false_positive |-> OrDefault(reward_false_positive, REWARD_FALSE_POSITIVE),
     reward_collateral_damage |->
         OrDefault(reward_collateral_damage, REWARD_COLLATERAL_DAMAGE),
     reward_uncertainty |-> OrDefault(reward_uncertainty, REWARD_UNCERTAINTY),
     time_penalty_factor |-> TIME_PENALTY_FACTOR]

\* components[name] = value
Put(components, name, value) == (name :> value) @@ components

\* mutant of SpeedBonusCB: the bonus is added to the reward and left out of
\* the breakdown
SpeedBonusCB_Unlisted(self, o, base) ==
    IF o.time_to_remediate < FAST_RESPONSE
    THEN [base EXCEPT !.base_reward = @ +
            FMul(FMul(self.reward_success, SPEED_BONUS_SHARE),
                 Milli - FDiv(o.time_to_remediate, FAST_RESPONSE))]
    ELSE base

\* the speed bonus of a contained attack (reward_calculator.py): added to
\* base_reward and entered in the breakdown
SpeedBonusCB(self, o, base) ==
    IF o.time_to_remediate < FAST_RESPONSE
    THEN LET speed_bonus == FMul(FMul(self.reward_success, SPEED_BONUS_SHARE),
                                 Milli - FDiv(o.time_to_remediate, FAST_RESPONSE))
         IN  [base_reward |-> base.base_reward + speed_bonus,
              components |-> Put(base.components, "speed_bonus", speed_bonus)]
    ELSE base

\* reward_calculator.RewardCalculator.calculate_reward
calculate_reward_cb(self, o) ==
    LET base ==
            IF o.false_positive
            THEN [base_reward |-> self.reward_false_positive,
                  components |-> Put(<< >>, "false_positive", self.reward_false_positive)]
            ELSE IF o.success /\ o.attack_contained
            THEN SpeedBonusCB(self, o,
                     [base_reward |-> self.reward_success,
                      components |-> Put(<< >>, "success", self.reward_success)])
            ELSE IF ~o.success
            THEN [base_reward |-> self.reward_failure,
                  components |-> Put(<< >>, "failure", self.reward_failure)]
            ELSE [base_reward |-> self.reward_uncertainty,
                  components |-> Put(<< >>, "uncertainty", self.reward_uncertainty)]
        damaged ==
            IF o.collateral_damage
            THEN [total_reward |-> base.base_reward + self.reward_collateral_damage,
                  components |-> Put(base.components, "collateral_damage",
                                     self.reward_collateral_damage)]
            ELSE [total_reward |-> base.base_reward, components |-> base.components]
        time_penalty == 0 - FMul(self.time_penalty_factor, o.time_to_remediate)
    IN  [outcome |-> o,
         reward |-> damaged.total_reward + time_penalty,
         components |-> Put(damaged.components, "time_penalty", time_penalty)]

\* rl_core.RewardCalculator()
NewCoreRewardCalculator ==
    [reward_success |-> CORE_REWARD_SUCCESS,
     reward_failure |-> CORE_REWARD_FAILURE,
     time_penalty_factor |-> CORE_TIME_PENALTY_FACTOR]

\* the flat speed bonus of a success (rl_core.py)
SpeedBonusCore(self, o, base) ==
    IF o.time_to_remediate < FAST_RESPONSE
    THEN [base_reward |-> base.base_reward + CORE_SPEED_BONUS,
          components |-> Put(base.components, "speed_bonus", CORE_SPEED_BONUS)]
    ELSE base

\* a calculator whose time penalty is a tenth of a point per minute
calculate_reward_core_SteepTimePenalty(self, o) ==
    LET base_reward == IF o.success THEN self.reward_success ELSE self.reward_failure
        time_penalty == 0 - FMul(100, o.time_to_remediate)
    IN  [outcome |-> o,
         reward |-> base_reward + time_penalty,
         components |-> Put(Put(<< >>, IF o.success THEN "success" ELSE "failure", base_reward),
                            "time_penalty", time_penalty)]

\* rl_core.RewardCalculator.calculate_reward
calculate_reward_core(self, o) ==
    LET base ==
            IF o.success
            THEN SpeedBonusCore(self, o,
                     [base_reward |-> self.reward_success,
                      components |-> Put(<< >>, "success", self.reward_success)])
            ELSE [base_reward |-> self.reward_failure,
                  components |-> Put(<< >>, "failure", self.reward_failure)]
        time_penalty == 0 - FMul(self.time_penalty_factor, o.time_to_remediate)
    IN  [outcome |-> o,
         reward |-> base.base_reward + time_penalty,
         components |-> Put(base.components, "time_penalty", time_penalty)]

\* calculate_reward of the calculator that is wired in
calculate_reward(which, o) ==
    IF which = "reward_calculator"
    THEN calculate_reward_cb(NewRewardCalculator(None, None, None, None, None), o)
    ELSE calculate_reward_core(NewCoreRewardCalculator, o)

-----------------------------------------------------------------------------
(* Specification of reward shaping: an Outcome is handed to a calculator   *)

\* values of time_to_remediate (> 0) the model draws from: 0.001, 2.5, 9.999,
\* 10, 12.5 and 30 minutes
RemediationTimes == {1, 2500, 9999, 10000, 12500, 30000}

\* every Outcome over those times
Outcomes ==
    [action_taken : {BLOCK_IP}, success : BOOLEAN, false_positive : BOOLEAN,
     collateral_damage : BOOLEAN, attack_contained : BOOLEAN,
     time_to_remediate : RemediationTimes]

InitReward ==
    /\ outcome \in Outcomes
    /\ calculator \in {"reward_calculator", "rl_core"}
    /\ feedback = << >>
    /\ config = DefaultRLConfig
    /\ rl_agent = << >>
    /\ snapshot = << >>
    /\ history = << >>
    /\ lastOp = [op |-> "init"]
    /\ orch = << >>
    /\ threads = << >>
    /\ trials = << >>

\* the caller runs calculate_reward(outcome)
CalculateReward ==
    /\ feedback = << >>
    /\ feedback' = calculate_reward(calculator, outcome)
    /\ lastOp' = [op |-> "calculate_reward"]
    /\ UNCHANGED <<config, rl_agent, snapshot, history, outcome, calculator,
                   orch, threads, trials>>

SpecReward == InitReward /\ [][CalculateReward]_vars

-----------------------------------------------------------------------------
(* The environment-response model (rl_core.simulate_outcome)               *)

SLOW_ACTIONS == {"notify_team", "scan_system"}
FAST_ACTIONS == {"block_ip", "isolate_host", "kill_process", "lock_account",
                 "quarantine_file", "reset_credentials"}

\* success_prob of simulate_outcome, after the confidence adjustment and the
\* clamp to [0.15, 0.95]
SuccessProb(action_taken, incident_severity, confidence) ==
    LET base == IF incident_severity \in {"critical", "high"}
                THEN IF action_taken \in SLOW_ACTIONS THEN 200
                     ELSE IF action_taken \in FAST_ACTIONS THEN 850
                     ELSE 700
                ELSE IF action_taken \in SLOW_ACTIONS THEN 750 ELSE 800
        adjusted == IF confidence < 500 THEN FMul(base, 900) ELSE FMul(base, 1050)
    IN  Max2(150, Min2(950, adjusted))

\* random.uniform(lo, hi) for the fraction u of the range
Uniform(lo, hi, u) == lo + FMul(u, hi - lo)

\* an outcome model that reports the low-confidence false positive whether
\* or not the action succeeded
simulate_outcome_AnyFalsePositive(action_taken, incident_severity, attack_type, confidence, rnd) ==
    [action_taken |-> action_taken,
     success |-> rnd.first < SuccessProb(action_taken, incident_severity, confidence),
     false_positive |-> confidence < 500 /\ rnd.second < 100,
     collateral_damage |->
         rnd.first < SuccessProb(action_taken, incident_severity, confidence)
         /\ rnd.second < 50,
     attack_contained |-> rnd.first < SuccessProb(action_taken, incident_severity, confidence),
     time_to_remediate |-> Uniform(3000, 12000, rnd.time)]

\* simulate_outcome(action_taken, incident_severity, attack_type, confidence)
\* with the random draws rnd.first and rnd.second (random.random(): the
\* second call is made for false_positive after a failure at low confidence,
\* or for collateral_damage after a success, never for both) and rnd.time
\* (the fraction drawn by random.uniform)
simulate_outcome(action_taken, incident_severity, attack_type, confidence, rnd) ==
    LET success == rnd.first < SuccessProb(action_taken, incident_severity, confidence)
        false_positive == ~success /\ confidence < 500 /\ rnd.second < 100
        collateral_damage == success /\ rnd.second < 50
        drawn == IF action_taken \in SLOW_ACTIONS
                 THEN Uniform(15000, 30000, rnd.time)
                 ELSE Uniform(3000, 12000, rnd.time)
        time_to_remediate == IF success THEN FMul(drawn, 800) ELSE drawn
    IN  [action_taken |-> action_taken,
         success |-> success,
         false_positive |-> false_positive,
         collateral_damage |-> collateral_damage,
         attack_contained |-> success,
         time_to_remediate |-> time_to_remediate]

-----------------------------------------------------------------------------
(* The orchestrator (core/orchestrator.py)                                 *)

\* list(RemediationAction), in the order of the enum
AllActions ==
    <<"block_ip", "lock_account", "kill_process", "isolate_host", "notify_team",
      "scan_system", "reset_credentials", "quarantine_file">>

\* a / n rounded toward zero, n > 0
DivInt(a, n) == IF a >= 0 THEN a \div n ELSE 0 - ((0 - a) \div n)

RECURSIVE SumSeq(_)
\* sum(list)
SumSeq(seq) == IF seq = << >> THEN 0 ELSE Head(seq) + SumSeq(Tail(seq))

\* SimulationMetrics as CyberDefenseOrchestrator.__init__ creates it
NewMetrics ==
    [total_episodes |-> 0, successful_defenses |-> 0, failed_defenses |-> 0,
     false_positives |-> 0, average_reward |-> 0, average_time_to_remediate |-> 0,
     detection_rate |-> 0, action_distribution |-> << >>, reward_history |-> << >>]

\* CyberDefenseOrchestrator.__init__ without rl_agent_path: the engine is
\* rl_core.ContextualBandit(actions=all_actions)
NewOrchestratorAgent == NewCore(AllActions, << >>)

\* _create_state(incident_report, attack_scenario)
_create_state(incident_report, attack_scenario) ==
    [incident_severity |-> incident_report.severity,
     attack_type |-> attack_scenario.attack_type,
     confidence_level |-> incident_report.confidence,
     num_affected_assets |-> IF incident_report.num_affected_assets = 0 THEN 1
                             ELSE incident_report.num_affected_assets]

\* the episodes of `episodes` whose incident was detected with confidence
\* above 0.5
Detected(episodes) ==
    Cardinality({k \in 1..Len(episodes) : episodes[k].incident_report.confidence > 500})

\* _update_metrics(episode) of a completed episode; self.episodes does not
\* hold the episode yet
_update_metrics(metrics, episodes, episode) ==
    LET o == episode.outcome
        action == episode.rl_decision.selected_action
        total == metrics.total_episodes + 1
        hist == Append(metrics.reward_history, episode.reward.reward)
    IN  [metrics EXCEPT
           !.total_episodes = total,
           !.successful_defenses = IF o.success THEN @ + 1 ELSE @,
           !.failed_defenses = IF o.success THEN @ ELSE @ + 1,
           !.false_positives = IF o.false_positive THEN @ + 1 ELSE @,
           !.reward_history = hist,
           !.average_reward = DivInt(SumSeq(hist), Len(hist)),
           !.action_distribution =
               IF action \in DOMAIN @ THEN [@ EXCEPT ![action] = @ + 1]
               ELSE @ @@ (action :> 1),
           !.detection_rate =
               IF episode.incident_report.confidence > 500
               THEN DivInt(Detected(episodes) * Milli, total)
               ELSE @]

\* the incident the agents report for the context `state`
IncidentOf(state) ==
    [severity |-> state.incident_severity, confidence |-> state.confidence_level,
     num_affected_assets |-> state.num_affected_assets]

\* run_episode(episode_number): the engine, the episode list and the metrics
\* after the call.  inp.state is the context the agents produce,
\* inp.agents_raise whether one of the agent steps 1-5 raises, inp.r and
\* inp.pick the draws of select_action, inp.rnd those of simulate_outcome.
\* The Episode is constructed before the try block with None for its two
\* required fields; inp.episode_rejected is whether the data-model library
\* of the deployment rejects that, in which case the exception leaves
\* run_episode.  Every exception of the try block is caught; the episode is
\* then returned without being appended
run_episode(agent, episodes, metrics, episode_number, inp) ==
    LET aborted == [agent |-> agent, episodes |-> episodes, metrics |-> metrics,
                    completed |-> FALSE, raised |-> FALSE]
        incident_report == IncidentOf(inp.state)
        state == _create_state(incident_report, [attack_type |-> inp.state.attack_type])
        sel == select_action(agent, state, inp.r, inp.pick)
    IN  IF inp.episode_rejected THEN [aborted EXCEPT !.raised = TRUE]
        ELSE IF inp.agents_raise THEN aborted
        ELSE IF sel.raised THEN [aborted EXCEPT !.agent = sel.agent]
        ELSE
        LET o == simulate_outcome(sel.decision.selected_action, incident_report.severity,
                                  state.attack_type, incident_report.confidence, inp.rnd)
            reward_feedback == calculate_reward("rl_core", o)
            upd == update(sel.agent, state, sel.decision.selected_action,
                          reward_feedback.reward, None)
        IN  IF upd.raised THEN [aborted EXCEPT !.agent = upd.agent]
            ELSE
            LET episode == [episode_number |-> episode_number,
                            incident_report |-> incident_report,
                            rl_decision |-> sel.decision,
                            outcome |-> o,
                            reward |-> reward_feedback]
            IN  [agent |-> decay_epsilon(upd.agent),
                 episodes |-> Append(episodes, episode),
                 metrics |-> _update_metrics(metrics, episodes, episode),
                 completed |-> TRUE,
                 raised |-> FALSE]

-----------------------------------------------------------------------------
(* Specification of a simulation run: run_simulation(num_episodes)         *)

\* the draws of simulate_outcome the model considers
OutcomeDraws == [first : RandomDraws, second : RandomDraws, time : {0, Milli}]

\* the actions random.choice is taken to return when select_action explores:
\* a fast and a slow action
PickDraws == {BLOCK_IP, NOTIFY_TEAM}

InitSim ==
    /\ config = DefaultRLConfig
    /\ rl_agent = NewOrchestratorAgent
    /\ orch = [pc |-> "idle", num_episodes |-> 0, i |-> 0, aborted |-> 0,
               episodes |-> << >>, metrics |-> NewMetrics]
    /\ snapshot = << >>
    /\ history = << >>
    /\ lastOp = [op |-> "init"]
    /\ outcome = << >>
    /\ calculator = "rl_core"
    /\ feedback = << >>
    /\ threads = << >>
    /\ trials = << >>

\* run_simulation(num_episodes) is called
StartSimulation(num_episodes) ==
    /\ orch.pc = "idle"
    /\ orch' = [orch EXCEPT !.pc = "running", !.num_episodes = num_episodes]
    /\ lastOp' = [op |-> "run_simulation"]
    /\ UNCHANGED <<config, rl_agent, snapshot, history, outcome, calculator, feedback,
                   threads, trials>>

\* the loop body of run_simulation once run_episode has ended with ep: an
\* exception that left run_episode ends run_simulation, else
\* rl_agent.decay_epsilon() is called and the loop goes on
Advance(ep) ==
    IF ep.raised
    THEN /\ rl_agent' = ep.agent
         /\ orch' = [orch EXCEPT !.pc = "raised"]
         /\ lastOp' = [op |-> "run_episode", completed |-> FALSE]
    ELSE /\ rl_agent' = decay_epsilon(ep.agent)
         /\ orch' = [orch EXCEPT !.i = @ + 1,
                                 !.aborted = IF ep.completed THEN @ ELSE @ + 1,
                                 !.episodes = ep.episodes,
                                 !.metrics = ep.metrics]
         /\ lastOp' = [op |-> "run_episode", completed |-> ep.completed]

\* one iteration of the loop of run_simulation: run_episode(i + 1), then
\* rl_agent.decay_epsilon()
LoopIteration(inp) ==
    /\ orch.pc = "running"
    /\ orch.i < orch.num_episodes
    /\ Advance(run_episode(rl_agent, orch.episodes, orch.metrics, orch.i + 1, inp))
    /\ UNCHANGED <<config, snapshot, history, outcome, calculator, feedback,
                   threads, trials>>

\* the loop is over: run_simulation returns self.metrics
FinishSimulation ==
    /\ orch.pc = "running"
    /\ orch.i = orch.num_episodes
    /\ orch' = [orch EXCEPT !.pc = "done"]
    /\ lastOp' = [op |-> "return"]
    /\ UNCHANGED <<config, rl_agent, snapshot, history, outcome, calculator, feedback,
                   threads, trials>>

\* what select_action can pick for the context, within the draws considered
PicksFor(agent, state, r) ==
    LET choices == SelectChoices(agent, state, r)
    IN  IF choices = {} THEN {"none"}
        ELSE IF r < agent.epsilon THEN choices \cap PickDraws
        ELSE choices

\* the inputs of one episode: the Episode is rejected; or an agent step
\* raises; or the agents report a context and the draws are made
EpisodeInputs ==
    LET state0 == CHOOSE state \in StateInputs : TRUE
        rnd0 == CHOOSE rnd \in OutcomeDraws : TRUE
        unused == [episode_rejected |-> FALSE, state |-> state0, agents_raise |-> FALSE,
                   r |-> 0, pick |-> "none", rnd |-> rnd0]
    IN  {[unused EXCEPT !.episode_rejected = TRUE], [unused EXCEPT !.agents_raise = TRUE]}
        \cup UNION { { [unused EXCEPT !.state = state, !.r = r, !.pick = pick,
                                      !.rnd = rnd] :
                       pick \in PicksFor(rl_agent, state, r), rnd \in OutcomeDraws } :
                     state \in StateInputs, r \in RandomDraws }

NextSim ==
    \/ \E num_episodes \in 1..MaxEpisodes : StartSimulation(num_episodes)
    \/ \E inp \in EpisodeInputs : LoopIteration(inp)
    \/ FinishSimulation

SpecSim == InitSim /\ [][NextSim]_vars

-----------------------------------------------------------------------------
(* Specification of the API server's episode threads (api_server.py):      *)
(* every started simulation runs its episodes through                      *)
(* loop.run_in_executor(None, ...) on the one global orchestrator, so the  *)
(* episodes of two overlapping simulations are two threads in run_episode. *)
(* A step is one read or one write of an attribute of the shared engine;   *)
(* no lock is taken anywhere.                                              *)

\* the executor threads: one episode of each of two overlapping simulations
Threads == {1, 2}

\* the draws of simulate_outcome considered for a thread's episode: a fast
\* success and a slow failure
ThreadOutcomeDraws ==
    {[first |-> 0, second |-> 999, time |-> 0],
     [first |-> 999, second |-> 999, time |-> Milli]}

\* the context and the random draws of a thread's episode
TrialInputs ==
    [state : StateInputs, r : RandomDraws, pick : PickDraws, rnd : ThreadOutcomeDraws]

\* a thread that has not entered run_episode yet
NewThread == [pc |-> "start", tmp |-> 0, action |-> "none", reward_feedback |-> << >>,
              raised |-> FALSE]

InitConc ==
    /\ config = DefaultRLConfig
    /\ rl_agent = NewOrchestratorAgent
    /\ orch = [pc |-> "serving", num_episodes |-> 0, i |-> 0, aborted |-> 0,
               episodes |-> << >>, metrics |-> NewMetrics]
    /\ threads = [t \in Threads |-> NewThread]
    /\ trials \in [Threads -> TrialInputs]
    /\ snapshot = << >>
    /\ history = << >>
    /\ lastOp = [op |-> "init"]
    /\ outcome = << >>
    /\ calculator = "rl_core"
    /\ feedback = << >>

\* the variables the threads leave alone
ConcIdle == <<config, snapshot, history, outcome, calculator, feedback, trials>>

\* state_key of thread t's episode
KeyOf(t) == _state_to_key(rl_agent, trials[t].state)

\* thread t moves to pc with its register set to tmp
Goto(t, pc, tmp) == threads' = [threads EXCEPT ![t].pc = pc, ![t].tmp = tmp]

\* _get_q_values: `if state_key not in self.q_table`
CheckRow(t) ==
    /\ threads[t].pc = "start"
    /\ Goto(t, IF KeyOf(t) \in DOMAIN rl_agent.q_table THEN "read_visits" ELSE "init_row", 0)
    /\ UNCHANGED <<rl_agent, orch, lastOp, ConcIdle>>

\* _get_q_values: self.q_table[state_key] = {action: self.q_init ...}
InitRow(t) ==
    /\ threads[t].pc = "init_row"
    /\ rl_agent' = [rl_agent EXCEPT !.q_table =
                       (KeyOf(t) :> NewRow(rl_agent)) @@ @]
    /\ Goto(t, "init_visits", 0)
    /\ UNCHANGED <<orch, lastOp, ConcIdle>>

\* _get_q_values: self.state_visit_counts[state_key] = 0
InitVisits(t) ==
    /\ threads[t].pc = "init_visits"
    /\ rl_agent' = [rl_agent EXCEPT !.state_visit_counts = (KeyOf(t) :> 0) @@ @]
    /\ Goto(t, "read_visits", 0)
    /\ UNCHANGED <<orch, lastOp, ConcIdle>>

\* _get_q_values: the read of `self.state_visit_counts[state_key] += 1`;
\* KeyError when the other thread has created the row and not the counter
\* yet, which run_episode catches: the episode is over
ReadVisits(t) ==
    /\ threads[t].pc = "read_visits"
    /\ IF KeyOf(t) \in DOMAIN rl_agent.state_visit_counts
       THEN Goto(t, "write_visits", rl_agent.state_visit_counts[KeyOf(t)])
       ELSE threads' = [threads EXCEPT ![t].pc = "done", ![t].raised = TRUE]
    /\ UNCHANGED <<rl_agent, orch, lastOp, ConcIdle>>

\* _get_q_values: the write of `self.state_visit_counts[state_key] += 1`
WriteVisits(t) ==
    /\ threads[t].pc = "write_visits"
    /\ rl_agent' = [rl_agent EXCEPT !.state_visit_counts =
                       (KeyOf(t) :> threads[t].tmp + 1) @@ @]
    /\ Goto(t, "choose", 0)
    /\ UNCHANGED <<orch, lastOp, ConcIdle>>

\* select_action: the epsilon test and the choice of the action, over the
\* row and the counters as they are now
Choose(t) ==
    /\ threads[t].pc = "choose"
    /\ LET q_values == rl_agent.q_table[KeyOf(t)]
           selected_action ==
               IF trials[t].r < rl_agent.epsilon THEN trials[t].pick
               ELSE UCBArgMax(rl_agent, q_values, KeyOf(t))
       IN  threads' = [threads EXCEPT ![t].pc = "read_action_count",
                                      ![t].action = selected_action]
    /\ UNCHANGED <<rl_agent, orch, lastOp, ConcIdle>>

\* select_action: the read of `self.action_counts[selected_action] += 1`
ReadActionCount(t) ==
    /\ threads[t].pc = "read_action_count"
    /\ Goto(t, "write_action_count", rl_agent.action_counts[threads[t].action])
    /\ UNCHANGED <<rl_agent, orch, lastOp, ConcIdle>>

\* select_action: the write of `self.action_counts[selected_action] += 1`
WriteActionCount(t) ==
    /\ threads[t].pc = "write_action_count"
    /\ rl_agent' = [rl_agent EXCEPT !.action_counts[threads[t].action] = threads[t].tmp + 1]
    /\ Goto(t, "read_q", 0)
    /\ UNCHANGED <<orch, lastOp, ConcIdle>>

\* simulate_outcome and calculate_reward (thread-local), then update:
\* current_q = self.q_table[state_key][action_str]
ReadQ(t) ==
    /\ threads[t].pc = "read_q"
    /\ LET state == trials[t].state
           o == simulate_outcome(threads[t].action, state.incident_severity,
                                 state.attack_type, state.confidence_level, trials[t].rnd)
       IN  threads' = [threads EXCEPT
                          ![t].pc = "write_q",
                          ![t].reward_feedback = calculate_reward("rl_core", o),
                          ![t].tmp = rl_agent.q_table[KeyOf(t)][threads[t].action]]
    /\ UNCHANGED <<rl_agent, orch, lastOp, ConcIdle>>

\* update: self.q_table[state_key][action_str] = new_q
WriteQ(t) ==
    /\ threads[t].pc = "write_q"
    /\ LET current_q == threads[t].tmp
           td_error == threads[t].reward_feedback.reward - current_q
           new_q == current_q + FMul(rl_agent.learning_rate, td_error)
       IN  rl_agent' = [rl_agent EXCEPT !.q_table[KeyOf(t)][threads[t].action] = new_q]
    /\ Goto(t, "read_update_count", 0)
    /\ UNCHANGED <<orch, lastOp, ConcIdle>>

\* update: the read of `self.update_count += 1`
ReadUpdateCount(t) ==
    /\ threads[t].pc = "read_update_count"
    /\ Goto(t, "write_update_count", rl_agent.update_count)
    /\ UNCHANGED <<rl_agent, orch, lastOp, ConcIdle>>

\* update: the write of `self.update_count += 1`
WriteUpdateCount(t) ==
    /\ threads[t].pc = "write_update_count"
    /\ rl_agent' = [rl_agent EXCEPT !.update_count = threads[t].tmp + 1]
    /\ Goto(t, "read_epsilon", 0)
    /\ UNCHANGED <<orch, lastOp, ConcIdle>>

\* decay_epsilon: the read of self.epsilon in
\* `self.epsilon = max(self.min_epsilon, self.epsilon * self.epsilon_decay)`
ReadEpsilon(t) ==
    /\ threads[t].pc = "read_epsilon"
    /\ Goto(t, "write_epsilon", rl_agent.epsilon)
    /\ UNCHANGED <<rl_agent, orch, lastOp, ConcIdle>>

\* decay_epsilon: the assignment to self.epsilon
WriteEpsilon(t) ==
    /\ threads[t].pc = "write_epsilon"
    /\ rl_agent' = [rl_agent EXCEPT !.epsilon =
                       Max2(rl_agent.min_epsilon,
                            FMul(threads[t].tmp, rl_agent.epsilon_decay))]
    /\ Goto(t, "read_episode_count", 0)
    /\ UNCHANGED <<orch, lastOp, ConcIdle>>

\* decay_epsilon: the read of `self.episode_count += 1`
ReadEpisodeCount(t) ==
    /\ threads[t].pc = "read_episode_count"
    /\ Goto(t, "write_episode_count", rl_agent.episode_count)
    /\ UNCHANGED <<rl_agent, orch, lastOp, ConcIdle>>

\* decay_epsilon: the write of `self.episode_count += 1`
WriteEpisodeCount(t) ==
    /\ threads[t].pc = "write_episode_count"
    /\ rl_agent' = [rl_agent EXCEPT !.episode_count = threads[t].tmp + 1]
    /\ Goto(t, "record", 0)
    /\ UNCHANGED <<orch, lastOp, ConcIdle>>

\* run_episode: self._update_metrics(episode) and self.episodes.append(episode),
\* which do not touch the engine and are taken as one step; the episode is
\* then complete
Record(t) ==
    /\ threads[t].pc = "record"
    /\ LET episode == [episode_number |-> Len(orch.episodes) + 1,
                       incident_report |-> IncidentOf(trials[t].state),
                       rl_decision |-> [selected_action |-> threads[t].action],
                       outcome |-> threads[t].reward_feedback.outcome,
                       reward |-> threads[t].reward_feedback]
       IN  orch' = [orch EXCEPT
                      !.metrics = _update_metrics(orch.metrics, orch.episodes, episode),
                      !.episodes = Append(@, episode)]
    /\ Goto(t, "done", 0)
    /\ UNCHANGED <<rl_agent, lastOp, ConcIdle>>

NextConc ==
    \E t \in Threads :
        \/ CheckRow(t) \/ InitRow(t) \/ InitVisits(t) \/ ReadVisits(t) \/ WriteVisits(t)
        \/ Choose(t) \/ ReadActionCount(t) \/ WriteActionCount(t)
        \/ ReadQ(t) \/ WriteQ(t) \/ ReadUpdateCount(t) \/ WriteUpdateCount(t)
        \/ ReadEpsilon(t) \/ WriteEpsilon(t)
        \/ ReadEpisodeCount(t) \/ WriteEpisodeCount(t) \/ Record(t)

SpecConc == InitConc /\ [][NextConc]_vars

-----------------------------------------------------------------------------
(* Specification of exploration decay: decay_epsilon is called again and   *)
(* again on one engine, as at the end of every episode                     *)

MaxDecayCalls == 100     \* decay_epsilon calls made on one engine

\* what decay_epsilon() called on `agent` logs: contextual_bandit warns when
\* epsilon hits the minimum coming from above and reports every 10th
\* episode; rl_core only reports every 5th episode
decay_epsilon_log(agent) ==
    LET after == decay_epsilon(agent)
    IN  IF agent.variant = "cb"
        THEN (IF after.epsilon = agent.min_epsilon /\ agent.epsilon > agent.min_epsilon
              THEN {"epsilon_reached_minimum"} ELSE {})
             \cup (IF after.episode_count % 10 = 0 THEN {"episode_epsilon"} ELSE {})
        ELSE IF after.episode_count % 5 = 0 THEN {"episode_epsilon"} ELSE {}

InitDecay ==
    /\ config = DefaultRLConfig
    /\ rl_agent \in NewEngines(config)
    /\ history = [start_epsilon |-> rl_agent.epsilon, calls |-> 0]
    /\ snapshot = << >>
    /\ lastOp = [op |-> "init"]
    /\ IdleInit

\* a caller runs decay_epsilon(); the log records it emits are observed
DecayLogged ==
    /\ history.calls < MaxDecayCalls
    /\ rl_agent' = decay_epsilon(rl_agent)
    /\ history' = [history EXCEPT !.calls = @ + 1]
    /\ lastOp' = [op |-> "decay_epsilon", log |-> decay_epsilon_log(rl_agent)]
    /\ UNCHANGED <<config, snapshot, Idle>>

SpecDecay == InitDecay /\ [][DecayLogged]_vars

-----------------------------------------------------------------------------
(* Specification of state encoding: callers encode contexts on one engine  *)

MaxEncodes == 2     \* _state_to_key calls made on one engine

\* State objects: contexts around the bucket borders, with and without
\* technique tags
Contexts ==
    [incident_severity : {"high", "critical"},
     attack_type : {"phishing"},
     confidence_level : {300, 340, 350},
     num_affected_assets : {2, 3, 5, 21},
     mitre_techniques : {<< >>, <<"T1566">>}]

InitKey ==
    /\ config = DefaultRLConfig
    /\ rl_agent \in NewEngines(config)
    /\ history = [encoded |-> {}, calls |-> 0]
    /\ snapshot = << >>
    /\ lastOp = [op |-> "init"]
    /\ IdleInit

\* a caller runs _state_to_key(state) and keeps the key
Encode(state) ==
    /\ history.calls < MaxEncodes
    /\ history' = [encoded |-> history.encoded \cup
                                 {[state |-> state, key |-> _state_to_key(rl_agent, state)]},
                   calls |-> history.calls + 1]
    /\ lastOp' = [op |-> "_state_to_key", state |-> state,
                  key |-> _state_to_key(rl_agent, state)]
    /\ UNCHANGED <<config, rl_agent, snapshot, Idle>>

SpecKey == InitKey /\ [][\E state \in Contexts : Encode(state)]_vars

-----------------------------------------------------------------------------
(* The environment-response model of rl/reward_calculator.py               *)

\* the row of action_effectiveness for an attack type, in the order of
\* AllActions (block_ip, lock_account, kill_process, isolate_host,
\* notify_team, scan_system, reset_credentials, quarantine_file)
EffectivenessRow(attack_type) ==
    IF attack_type = "phishing" THEN <<850, 800, 450, 750, 600, 500, 700, 550>>
    ELSE IF attack_type = "data_exfiltration" THEN <<900, 700, 500, 850, 650, 550, 650, 600>>
    ELSE IF attack_type = "credential_misuse" THEN <<700, 900, 400, 750, 650, 500, 850, 450>>
    ELSE IF attack_type = "malware_execution" THEN <<700, 500, 850, 800, 600, 750, 450, 900>>
    ELSE IF attack_type = "lateral_movement" THEN <<850, 800, 600, 900, 650, 700, 500, 550>>
    ELSE IF attack_type = "privilege_escalation" THEN <<700, 900, 750, 850, 600, 650, 800, 500>>
    ELSE <<600, 600, 600, 600, 600, 600, 600, 600>>

\* action_effectiveness.get(attack_type, {..: 0.60}).get(action_taken, 0.60)
BaseSuccess(attack_type, action_taken) ==
    IF \E i \in 1..Len(AllActions) : AllActions[i] = action_taken
    THEN EffectivenessRow(attack_type)[CHOOSE i \in 1..Len(AllActions) : AllActions[i] = action_taken]
    ELSE 600

\* severity_multiplier.get(incident_severity, 0.85)
SeverityMultiplier(incident_severity) ==
    IF incident_severity = "low" THEN 1000
    ELSE IF incident_severity = "medium" THEN 950
    ELSE IF incident_severity = "critical" THEN 750
    ELSE 850

\* success_prob_noisy: the capped probability plus the Gaussian noise, kept
\* in [0, 1]
NoisySuccessProb(action_taken, incident_severity, attack_type, confidence, noise) ==
    LET success_prob == FMul(FMul(BaseSuccess(attack_type, action_taken),
                                  SeverityMultiplier(incident_severity)),
                             500 + FMul(confidence, 500))
    IN  Max2(0, Min2(Milli, Max2(300, Min2(950, success_prob)) + noise))

aggressive_actions == {"isolate_host", "kill_process", "block_ip"}

\* reward_calculator.simulate_outcome(action_taken, incident_severity,
\* attack_type, confidence) with the draws rnd.noise (random.gauss),
\* rnd.first and rnd.second (random.random(), the second call as in rl_core)
\* and rnd.time (the fraction drawn by random.uniform)
simulate_outcome_reward_calculator(action_taken, incident_severity, attack_type, confidence, rnd) ==
    LET success == rnd.first < NoisySuccessProb(action_taken, incident_severity,
                                                attack_type, confidence, rnd.noise)
        false_positive == ~success /\ confidence < 500 /\ rnd.second < 500 - confidence
        collateral_prob == IF action_taken \in aggressive_actions THEN 150 ELSE 50
        collateral_damage == success /\ rnd.second < collateral_prob
        base_time == IF action_taken \in aggressive_actions THEN 10000 ELSE 15000
        time_multiplier == IF BaseSuccess(attack_type, action_taken) > 750 THEN 1000 ELSE 1500
        scaled == FMul(base_time, time_multiplier)
    IN  [action_taken |-> action_taken,
         success |-> success,
         false_positive |-> false_positive,
         collateral_damage |-> collateral_damage,
         attack_contained |-> success,
         time_to_remediate |-> Uniform(FMul(scaled, 700), FMul(scaled, 1500), rnd.time)]

-----------------------------------------------------------------------------
(* Specification of the outcome models: simulate_outcome is called with    *)
(* an action and an incident                                               *)

\* the arguments and the random draws of a call: every action, severity and
\* attack-type kind, confidences on both sides of 0.5
OutcomeCalls ==
    [module : {"rl_core", "reward_calculator"},
     action_taken : Elems(AllActions),
     incident_severity : {"low", "medium", "high", "critical"},
     attack_type : {"phishing", "lateral_movement", "other"},
     confidence : {0, 300, 499, 500, 900},
     rnd : [noise : {0 - 100, 0, 100}, first : RandomDraws, second : {0, 250, 999},
            time : {0, Milli}]]

InitOutcome ==
    /\ history \in OutcomeCalls
    /\ outcome = << >>
    /\ config = DefaultRLConfig
    /\ rl_agent = << >>
    /\ snapshot = << >>
    /\ lastOp = [op |-> "init"]
    /\ calculator = "none"
    /\ feedback = << >>
    /\ orch = << >>
    /\ threads = << >>
    /\ trials = << >>

\* the caller runs the module's simulate_outcome(...)
SimulateOutcome ==
    /\ outcome = << >>
    /\ outcome' = IF history.module = "rl_core"
                  THEN simulate_outcome(history.action_taken, history.incident_severity,
                                        history.attack_type, history.confidence, history.rnd)
                  ELSE simulate_outcome_reward_calculator(
                           history.action_taken, history.incident_severity,
                           history.attack_type, history.confidence, history.rnd)
    /\ lastOp' = [op |-> "simulate_outcome"]
    /\ UNCHANGED <<config, rl_agent, snapshot, history, calculator, feedback,
                   orch, threads, trials>>

SpecOutcome == InitOutcome /\ [][SimulateOutcome]_vars

-----------------------------------------------------------------------------
(* Specification of repeated learning: update is called again and again    *)
(* with the same state, action and reward, without a successor state       *)

MaxRepeats == 12     \* update calls made with the same arguments

\* the rewards the repeated update is called with: the default q_init of
\* either engine is among them
RepeatedRewards == {0 - 1000, 0, 700, 1000}

InitUpdate ==
    /\ config = DefaultRLConfig
    /\ \E engine \in NewEngines(config), state \in StateInputs,
          action \in Elems(InitialActions), reward \in RepeatedRewards :
          /\ rl_agent = _get_q_values(engine, state).agent
          /\ history = [state |-> state, action |-> action, reward |-> reward,
                        calls |-> 0, previous_q |-> engine.q_init]
    /\ snapshot = << >>
    /\ lastOp = [op |-> "init"]
    /\ IdleInit

\* the caller runs update(state, action, reward) once more
UpdateAgain ==
    /\ history.calls < MaxRepeats
    /\ rl_agent' = update(rl_agent, history.state, history.action, history.reward, None).agent
    /\ history' = [history EXCEPT
                      !.calls = @ + 1,
                      !.previous_q =
                          rl_agent.q_table[_state_to_key(rl_agent, history.state)][history.action]]
    /\ lastOp' = [op |-> "update"]
    /\ UNCHANGED <<config, snapshot, Idle>>

SpecUpdate == InitUpdate /\ [][UpdateAgain]_vars

-----------------------------------------------------------------------------
(* Specification of the learning scenario: in one state every selection is *)
(* followed by an update with reward +1 for isolate_host, -1 otherwise     *)

MaxTrials == 12     \* select/update trials of one scenario

\* the action list of the scenario's engines: an action before and one after
\* isolate_host
ScenarioActions == <<BLOCK_IP, ISOLATE_HOST, NOTIFY_TEAM>>

\* Context(severity=critical, attack=lateral-movement, confidence=0.9, assets=5)
ScenarioState ==
    [incident_severity |-> "critical", attack_type |-> "lateral_movement",
     confidence_level |-> 900, num_affected_assets |-> 5]

\* the engines of the scenario: both variants with their defaults, and the
\* contextual_bandit engine with a large learning rate
ScenarioEngines ==
    {NewCore(ScenarioActions, << >>),
     NewCB(ScenarioActions, None, None, None, None, None, None, DefaultRLConfig),
     NewCB(ScenarioActions, Some(500), None, None, None, None, None, DefaultRLConfig)}

\* the reward the scenario gives an action
ScenarioReward(action) == IF action = ISOLATE_HOST THEN 1000 ELSE 0 - 1000

InitScenario ==
    /\ config = DefaultRLConfig
    /\ rl_agent \in ScenarioEngines
    /\ history = [trials |-> 0, pending |-> << >>, other_exploited |-> 0,
                  isolate_exploited |-> 0]
    /\ snapshot = << >>
    /\ lastOp = [op |-> "init"]
    /\ IdleInit

\* the trial's selection: select_action(state) with the random outcomes r
\* and pick; other_exploited counts the exploitation-branch selections that
\* returned another action than isolate_host, isolate_exploited those that
\* returned isolate_host since the last of them
ScenarioSelect(r) ==
    /\ history.trials < MaxTrials
    /\ history.pending = << >>
    /\ \E pick \in SelectChoices(rl_agent, ScenarioState, r) :
          /\ rl_agent' = select_action(rl_agent, ScenarioState, r, pick).agent
          /\ history' =
               [trials |-> history.trials,
                pending |-> <<pick>>,
                other_exploited |->
                    IF r >= rl_agent.epsilon /\ pick # ISOLATE_HOST
                    THEN history.other_exploited + 1 ELSE history.other_exploited,
                isolate_exploited |->
                    IF r < rl_agent.epsilon THEN history.isolate_exploited
                    ELSE IF pick = ISOLATE_HOST THEN history.isolate_exploited + 1
                    ELSE 0]
          /\ lastOp' = [op |-> "select_action", is_exploration |-> r < rl_agent.epsilon,
                        selected_action |-> pick]
    /\ UNCHANGED <<config, snapshot, Idle>>

\* the trial's update: update(state, selected_action, reward)
ScenarioUpdate ==
    /\ history.pending # << >>
    /\ rl_agent' = update(rl_agent, ScenarioState, history.pending[1],
                          ScenarioReward(history.pending[1]), None).agent
    /\ history' = [history EXCEPT !.trials = @ + 1, !.pending = << >>]
    /\ lastOp' = [op |-> "update"]
    /\ UNCHANGED <<config, snapshot, Idle>>

SpecScenario ==
    InitScenario /\ [][(\E r \in RandomDraws : ScenarioSelect(r)) \/ ScenarioUpdate]_vars

-----------------------------------------------------------------------------
(* Specification of the API server's simulation control (api_server.py):   *)
(* one simulation runs as a background task on the event loop, its         *)
(* episodes in an executor thread, while pause, resume and stop requests   *)
(* are handled                                                             *)

MaxRequests == 3     \* accepted pause, resume and stop requests

\* the end of run_simulation_background after its loop: with an episode of
\* this simulation in orchestrator.episodes the status becomes "completed"
\* and the control flags are deleted; without one, the final log entry reads
\* the unassigned local `successful` and the handler of the outer try sets
\* the status "failed"
Finalize(o) ==
    IF o.episodes > 0
    THEN [o EXCEPT !.pc = "done", !.status = "completed", !.current_episode = o.num_episodes,
                   !.paused = FALSE, !.stopped = FALSE]
    ELSE [o EXCEPT !.pc = "done", !.status = "failed"]

\* a loop that goes on to the episode although the stop flag is set
LoopHead_IgnoreStop(o, n) ==
    IF n > o.num_episodes THEN Finalize(o)
    ELSE [o EXCEPT !.pc = "awaiting", !.episode_num = n, !.started = @ + 1]

\* the loop of run_simulation_background from the head of iteration n to its
\* next await: the end of the loop, the stop check, the pause loop (which
\* awaits asyncio.sleep), or the episode handed to the executor
LoopHead(o, n) ==
    IF n > o.num_episodes THEN Finalize(o)
    ELSE IF o.stopped
         THEN Finalize([o EXCEPT !.status = "stopped", !.current_episode = n - 1])
    ELSE IF o.paused THEN [o EXCEPT !.pc = "sleeping", !.episode_num = n]
    ELSE [o EXCEPT !.pc = "awaiting", !.episode_num = n, !.started = @ + 1]

\* the executor thread of the episode the task is awaiting, if any
ThreadOf(o) == IF o.pc = "awaiting" THEN [pc |-> "agents"] ELSE [pc |-> "idle"]

\* start_simulation has answered: the simulation is registered as running
\* and its background task is queued
InitApi ==
    /\ config = DefaultRLConfig
    /\ rl_agent = NewOrchestratorAgent
    /\ \E num_episodes \in 1..MaxEpisodes :
          orch = [status |-> "running", pc |-> "queued", num_episodes |-> num_episodes,
                  episode_num |-> 0, current_episode |-> 0, started |-> 0, episodes |-> 0,
                  paused |-> FALSE, stopped |-> FALSE]
    /\ threads = [pc |-> "idle"]
    /\ history = [requests |-> 0, stop_at |-> 0, stop_pc |-> "none"]
    /\ snapshot = << >>
    /\ lastOp = [op |-> "init"]
    /\ outcome = << >>
    /\ calculator = "rl_core"
    /\ feedback = << >>
    /\ trials = << >>

\* POST /pause is accepted
pause_simulation ==
    /\ history.requests < MaxRequests
    /\ orch.status = "running"
    /\ orch' = [orch EXCEPT !.paused = TRUE, !.status = "paused"]
    /\ history' = [history EXCEPT !.requests = @ + 1]
    /\ lastOp' = [op |-> "pause_simulation"]
    /\ UNCHANGED <<config, rl_agent, snapshot, outcome, calculator, feedback, threads, trials>>

\* POST /resume is accepted
resume_simulation ==
    /\ history.requests < MaxRequests
    /\ orch.status = "paused"
    /\ orch' = [orch EXCEPT !.paused = FALSE, !.status = "running"]
    /\ history' = [history EXCEPT !.requests = @ + 1]
    /\ lastOp' = [op |-> "resume_simulation"]
    /\ UNCHANGED <<config, rl_agent, snapshot, outcome, calculator, feedback, threads, trials>>

\* POST /stop is accepted; history keeps the first stop accepted while an
\* episode is running: the number of episodes started and the episode's step
stop_simulation ==
    /\ history.requests < MaxRequests
    /\ orch.status \in {"running", "paused"}
    /\ orch' = [orch EXCEPT !.stopped = TRUE, !.paused = FALSE, !.status = "stopped"]
    /\ history' = IF threads.pc # "idle" /\ history.stop_at = 0
                  THEN [requests |-> history.requests + 1, stop_at |-> orch.started,
                        stop_pc |-> threads.pc]
                  ELSE [history EXCEPT !.requests = @ + 1]
    /\ lastOp' = [op |-> "stop_simulation"]
    /\ UNCHANGED <<config, rl_agent, snapshot, outcome, calculator, feedback, threads, trials>>

\* the background task starts: status "running", fresh control flags, and
\* the first iteration of the loop up to its await
TaskBegin ==
    /\ orch.pc = "queued"
    /\ orch' = LoopHead([orch EXCEPT !.status = "running", !.current_episode = 0,
                                     !.paused = FALSE, !.stopped = FALSE], 1)
    /\ threads' = ThreadOf(orch')
    /\ lastOp' = [op |-> "run_simulation_background"]
    /\ UNCHANGED <<config, rl_agent, snapshot, history, outcome, calculator, feedback, trials>>

\* the task wakes from asyncio.sleep in the pause loop with the pause flag
\* cleared or the stop flag set, and goes on to the stop check
PauseWake ==
    /\ orch.pc = "sleeping"
    /\ ~orch.paused \/ orch.stopped
    /\ orch' = LoopHead([orch EXCEPT !.paused = FALSE], orch.episode_num)
    /\ threads' = ThreadOf(orch')
    /\ lastOp' = [op |-> "pause_loop"]
    /\ UNCHANGED <<config, rl_agent, snapshot, history, outcome, calculator, feedback, trials>>

\* run_episode up to the decision cycle: the Episode is constructed and the
\* agents run; result is "ok", "agents_raise" (caught in run_episode, the
\* episode is returned unfinished) or "rejected" (the Episode constructor
\* raises, the exception leaves run_episode)
EpAgents(result) ==
    /\ threads.pc = "agents"
    /\ threads' = [pc |-> IF result = "ok" THEN "select"
                          ELSE IF result = "agents_raise" THEN "returned" ELSE "raised"]
    /\ lastOp' = [op |-> "run_episode", step |-> "agents"]
    /\ UNCHANGED <<config, rl_agent, snapshot, history, outcome, calculator, feedback, orch, trials>>

\* run_episode: decision = self.rl_agent.select_action(state), exploiting
EpSelect ==
    /\ threads.pc = "select"
    /\ \E pick \in SelectChoices(rl_agent, ScenarioState, 999) :
          /\ rl_agent' = select_action(rl_agent, ScenarioState, 999, pick).agent
          /\ threads' = [pc |-> "simulate", action |-> pick]
    /\ lastOp' = [op |-> "run_episode", step |-> "select"]
    /\ UNCHANGED <<config, snapshot, history, outcome, calculator, feedback, orch, trials>>

\* run_episode: outcome = simulate_outcome(...)
EpSimulate(rnd) ==
    /\ threads.pc = "simulate"
    /\ outcome' = simulate_outcome(threads.action, ScenarioState.incident_severity,
                                   ScenarioState.attack_type, ScenarioState.confidence_level, rnd)
    /\ threads' = [threads EXCEPT !.pc = "reward"]
    /\ lastOp' = [op |-> "run_episode", step |-> "simulate"]
    /\ UNCHANGED <<config, rl_agent, snapshot, history, calculator, feedback, orch, trials>>

\* run_episode: reward_feedback = self.reward_calculator.calculate_reward(outcome)
EpReward ==
    /\ threads.pc = "reward"
    /\ feedback' = calculate_reward(calculator, outcome)
    /\ threads' = [threads EXCEPT !.pc = "update"]
    /\ lastOp' = [op |-> "run_episode", step |-> "reward"]
    /\ UNCHANGED <<config, rl_agent, snapshot, history, outcome, calculator, orch, trials>>

\* run_episode: self.rl_agent.update(state, action, reward, next_state=None)
EpUpdate ==
    /\ threads.pc = "update"
    /\ rl_agent' = update(rl_agent, ScenarioState, threads.action, feedback.reward, None).agent
    /\ threads' = [threads EXCEPT !.pc = "decay"]
    /\ lastOp' = [op |-> "run_episode", step |-> "update"]
    /\ UNCHANGED <<config, snapshot, history, outcome, calculator, feedback, orch, trials>>

\* run_episode: self.rl_agent.decay_epsilon()
EpDecay ==
    /\ threads.pc = "decay"
    /\ rl_agent' = decay_epsilon(rl_agent)
    /\ threads' = [threads EXCEPT !.pc = "record"]
    /\ lastOp' = [op |-> "run_episode", step |-> "decay"]
    /\ UNCHANGED <<config, snapshot, history, outcome, calculator, feedback, orch, trials>>

\* run_episode: self._update_metrics(episode), self.episodes.append(episode)
EpRecord ==
    /\ threads.pc = "record"
    /\ orch' = [orch EXCEPT !.episodes = @ + 1]
    /\ threads' = [pc |-> "returned"]
    /\ lastOp' = [op |-> "run_episode", step |-> "record"]
    /\ UNCHANGED <<config, rl_agent, snapshot, history, outcome, calculator, feedback, trials>>

\* the awaited executor call is over: after an episode that was returned
\* the progress is updated, after an exception the loop continues (the
\* count of failed episodes it compares with half of num_episodes is always
\* zero); then the next iteration runs up to its await
EpisodeOver ==
    /\ orch.pc = "awaiting"
    /\ threads.pc \in {"returned", "raised"}
    /\ orch' = LoopHead(IF threads.pc = "returned"
                        THEN [orch EXCEPT !.current_episode = orch.episode_num]
                        ELSE orch,
                        orch.episode_num + 1)
    /\ threads' = ThreadOf(orch')
    /\ outcome' = << >>
    /\ feedback' = << >>
    /\ lastOp' = [op |-> "run_simulation_background"]
    /\ UNCHANGED <<config, rl_agent, snapshot, history, calculator, trials>>

NextApi ==
    \/ pause_simulation
    \/ resume_simulation
    \/ stop_simulation
    \/ TaskBegin
    \/ PauseWake
    \/ \E result \in {"ok", "agents_raise", "rejected"} : EpAgents(result)
    \/ EpSelect
    \/ \E rnd \in ThreadOutcomeDraws : EpSimulate(rnd)
    \/ EpReward
    \/ EpUpdate
    \/ EpDecay
    \/ EpRecord
    \/ EpisodeOver

SpecApi == InitApi /\ [][NextApi]_vars

\* a step of run_episode between the return of select_action and the end
\* of decay_epsilon
CycleStep ==
    \/ \E rnd \in ThreadOutcomeDraws : EpSimulate(rnd)
    \/ EpReward
    \/ EpUpdate
    \/ EpDecay

\* the executor thread keeps running: these steps wait for nothing
SpecApiFair == SpecApi /\ WF_vars(CycleStep)


-----------------------------------------------------------------------------
(* Specification of construction: a caller builds an engine, passing each  *)
(* hyperparameter or leaving it out                                        *)

\* the caller has chosen the class and, for each hyperparameter, to leave it
\* out, to pass 0.0 or to pass 0.25
InitConstruct ==
    /\ config = DefaultRLConfig
    /\ rl_agent = << >>
    /\ snapshot = << >>
    /\ history \in [variant : {"cb", "core"},
                    args : [{"learning_rate", "epsilon", "epsilon_decay", "min_epsilon",
                             "discount_factor", "q_init"} -> {None, Some(0), Some(250)}]]
    /\ lastOp = [op |-> "init"]
    /\ IdleInit

\* ContextualBandit(actions=..., **given) of the chosen class; rl_core takes
\* the arguments that were given as its **kwargs
Construct ==
    /\ rl_agent = << >>
    /\ LET a == history.args
           given == {p \in DOMAIN a : a[p] # None}
       IN  rl_agent' =
             IF history.variant = "cb"
             THEN NewCB(InitialActions, a.learning_rate, a.epsilon, a.epsilon_decay,
                        a.min_epsilon, a.discount_factor, a.q_init, config)
             ELSE NewCore(InitialActions, [p \in given |-> a[p][1]])
    /\ lastOp' = [op |-> "__init__"]
    /\ UNCHANGED <<config, snapshot, history, Idle>>

SpecConstruct == InitConstruct /\ [][Construct]_vars


-----------------------------------------------------------------------------
(* Specification of the decisions a caller holds.  Python dicts are        *)
(* objects held by reference: a reference is a row of the engine's q_table *)
(* ([kind |-> "row", key |-> k]) or the n-th dict made by a copy() call    *)
(* ([kind |-> "copy", n |-> n]); floats are immutable values               *)

MaxHeldOps == 3      \* engine calls of a run in which decisions are held

\* the dict a reference points to
Deref(agent, copies, ref) ==
    IF ref.kind = "row" THEN agent.q_table[ref.key] ELSE copies[ref.n]

\* a decision that is handed the row itself
DecisionQValues_Shared(key, copies) == [kind |-> "row", key |-> key]

\* q_values=q_values.copy() in the RLDecision that select_action builds: a
\* reference to a new dict
DecisionQValues(key, copies) == [kind |-> "copy", n |-> Len(copies) + 1]

InitHeld ==
    /\ config = DefaultRLConfig
    /\ rl_agent \in NewEngines(config)
    /\ snapshot = << >>
    /\ history = [copies |-> << >>, decisions |-> << >>]
    /\ lastOp = [op |-> "init"]
    /\ IdleInit

\* the caller runs select_action(state) and keeps the RLDecision returned
SelectHeld(state, r) ==
    /\ Selections(rl_agent) < MaxSelects
    /\ \E pick \in SelectChoices(rl_agent, state, r) :
         LET res == select_action(rl_agent, state, r, pick)
             ref == DecisionQValues(_state_to_key(rl_agent, state), history.copies)
         IN  /\ ~res.raised
             /\ rl_agent' = res.agent
             /\ history' =
                  [copies |-> IF ref.kind = "copy"
                              THEN Append(history.copies, res.decision.q_values)
                              ELSE history.copies,
                   decisions |-> Append(history.decisions,
                                        [state |-> state,
                                         selected_action |-> pick,
                                         q_values |-> ref,
                                         epsilon |-> res.decision.epsilon,
                                         edited |-> FALSE])]
             /\ lastOp' = [op |-> "select_action", state |-> state, r |-> r,
                           raised |-> FALSE, decision |-> res.decision]
    /\ UNCHANGED <<config, snapshot, Idle>>

\* the caller assigns decision.q_values[a] = v on the i-th decision it holds
MutateDecision(i, a, v) ==
    /\ ~history.decisions[i].edited
    /\ LET ref == history.decisions[i].q_values
       IN  /\ a \in DOMAIN Deref(rl_agent, history.copies, ref)
           /\ IF ref.kind = "row"
              THEN /\ rl_agent' = [rl_agent EXCEPT !.q_table[ref.key][a] = v]
                   /\ history' = [history EXCEPT !.decisions[i].edited = TRUE]
              ELSE /\ rl_agent' = rl_agent
                   /\ history' = [history EXCEPT !.decisions[i].edited = TRUE,
                                                 !.copies[ref.n][a] = v]
    /\ lastOp' = [op |-> "decision.q_values[a] = v", i |-> i]
    /\ UNCHANGED <<config, snapshot, Idle>>

NextHeld ==
    \/ /\ OpsDone < MaxHeldOps
       /\ \/ \E state \in StateInputs, r \in RandomDraws : SelectHeld(state, r)
          \/ \E state \in StateInputs, action \in Elems(rl_agent.actions), reward \in Rewards,
                next_state \in {None} \cup {Some(s) : s \in StateInputs} :
                Update(state, action, reward, next_state)
          \/ Decay
    \/ \E i \in 1..Len(history.decisions) :
          MutateDecision(i, history.decisions[i].selected_action, 0 - 5 * Milli)

SpecHeld == InitHeld /\ [][NextHeld]_vars


-----------------------------------------------------------------------------
(* Specification of the training signal: an outcome model produces the     *)
(* Outcome and a reward calculator with the default configuration shapes   *)
(* it                                                                      *)

InitShaped ==
    /\ history \in OutcomeCalls
    /\ calculator \in {"reward_calculator", "rl_core"}
    /\ outcome = << >>
    /\ feedback = << >>
    /\ config = DefaultRLConfig
    /\ rl_agent = << >>
    /\ snapshot = << >>
    /\ lastOp = [op |-> "init"]
    /\ orch = << >>
    /\ threads = << >>
    /\ trials = << >>

\* outcome = simulate_outcome(...), then calculate_reward(outcome)
SpecShaped ==
    InitShaped /\ [][SimulateOutcome \/ (outcome # << >> /\ CalculateReward)]_vars

-----------------------------------------------------------------------------
(* Claims about one engine (specification Spec)                            *)

\* C1: on an engine that was constructed (not loaded), every select_action
\* call returns without raising and the action it returns is one of the
\* engine's actions, on the exploration and on the exploitation branch
C1_SelectionInActionSet ==
    (lastOp.op = "select_action" /\ history.phase = "running") =>
        /\ ~lastOp.raised
        /\ lastOp.decision.selected_action \in Elems(rl_agent.actions)

\* C1 happens: an exploitation-branch selection after an update and a decay
C1_Witness ==
    /\ lastOp.op = "select_action"
    /\ ~lastOp.raised
    /\ ~lastOp.decision.is_exploration
    /\ rl_agent.update_count > 0
    /\ rl_agent.episode_count > 0

\* max(Q[next_state]) as update must see it: the row as it is before the
\* call, or a row of q_init when the successor has not been seen yet
C2_MaxNext(agent, next_state) ==
    LET key2 == _state_to_key(agent, next_state)
    IN  IF key2 \in DOMAIN agent.q_table
        THEN MaxValue(agent.q_table[key2])
        ELSE agent.q_init

\* C2: every update that returns used target = reward when no successor was
\* supplied and reward + gamma * max Q[next_state] when one was, returned
\* td_error = target - Q_old and stored Q_old + alpha * td_error, in each
\* engine variant
C2_UpdateRule ==
    [][(lastOp'.op = "update" /\ ~lastOp'.raised) =>
        LET key == _state_to_key(rl_agent, lastOp'.state)
            q_old == rl_agent.q_table[key][lastOp'.action]
            target == IF lastOp'.next_state = None
                      THEN lastOp'.reward
                      ELSE lastOp'.reward
                           + FMul(rl_agent.discount_factor,
                                  C2_MaxNext(rl_agent, lastOp'.next_state[1]))
        IN  /\ lastOp'.td_error = target - q_old
            /\ rl_agent'.q_table[key][lastOp'.action]
                 = q_old + FMul(rl_agent.learning_rate, target - q_old)]_vars

\* C3: after every decay_epsilon call epsilon is at least min_epsilon
C3_EpsilonAtLeastFloor ==
    lastOp.op = "decay_epsilon" => rl_agent.epsilon >= rl_agent.min_epsilon

\* C3 happens: a decay whose product fell below the floor and was clamped
C3_Witness ==
    /\ lastOp.op = "decay_epsilon"
    /\ rl_agent.episode_count = 1
    /\ rl_agent.epsilon = rl_agent.min_epsilon
    /\ rl_agent.epsilon_decay < Milli

\* C4: no decay_epsilon call leaves epsilon greater than it was before the
\* call, the first call after construction included
C4_EpsilonNonIncreasing ==
    [][lastOp'.op = "decay_epsilon" => rl_agent'.epsilon <= rl_agent.epsilon]_vars

-----------------------------------------------------------------------------
(* Claims about persistence (specification SpecStore)                      *)

\* the hyperparameters, Q-table and counters a snapshot is to preserve
C6_Persisted(agent) ==
    <<agent.q_table, agent.episode_count, agent.update_count, agent.action_counts,
      agent.learning_rate, agent.epsilon, agent.epsilon_decay, agent.min_epsilon,
      agent.discount_factor, agent.q_init>>

\* C6: an engine loaded with the action list it was saved with, under the
\* configuration it was saved under, has the Q-table, the counters and the
\* hyperparameters of the engine that was saved
C6_RoundTrip ==
    (/\ lastOp.op = "load"
     /\ lastOp.actions = history.saved.agent.actions
     /\ config = history.saved.config)
    => C6_Persisted(rl_agent) = C6_Persisted(history.saved.agent)

\* C7: after load, min_epsilon is the larger of the stored and the runtime
\* min_epsilon, and epsilon is the larger of the stored epsilon and that floor
C7_LoadReconcilesFloor ==
    lastOp.op = "load" =>
        LET floor == Max2(snapshot.config.min_epsilon, config.min_epsilon)
        IN  /\ rl_agent.min_epsilon = floor
            /\ rl_agent.epsilon = Max2(snapshot.epsilon, floor)

\* the rows and counters of the engine are keyed by its configured actions
C8_KeyedByActions(agent) ==
    /\ DOMAIN agent.action_counts = Elems(agent.actions)
    /\ \A key \in DOMAIN agent.q_table :
          DOMAIN agent.q_table[key] = Elems(agent.actions)

\* C8: load never returns an engine whose rows or counters are keyed by
\* another action set than the one it was asked for
C8_LoadRejectsMismatch ==
    lastOp.op = "load" => C8_KeyedByActions(rl_agent)

-----------------------------------------------------------------------------
(* Claims about reward shaping (specification SpecReward)                  *)

\* C5: for every Outcome, the values of RewardFeedback.components add up to
\* RewardFeedback.reward, in both reward calculators
C5_ComponentsSumToReward ==
    feedback # << >> => SumValues(feedback.components) = feedback.reward

\* C5 happens: a fast contained attack with collateral damage is rewarded, so
\* the breakdown has four components
C5_Witness ==
    /\ feedback # << >>
    /\ calculator = "reward_calculator"
    /\ DOMAIN feedback.components =
           {"success", "speed_bonus", "collateral_damage", "time_penalty"}
    /\ feedback.components["speed_bonus"] > 0

-----------------------------------------------------------------------------
(* Claims about a simulation run (specification SpecSim)                   *)

\* C10: in a simulation run epsilon is advanced exactly once per completed
\* trial: when run_simulation returns, episode_count equals the number of
\* episodes that completed, and an aborted episode has not advanced it
C10_DecayOncePerCompletedTrial ==
    (orch # << >> /\ orch.pc = "done") =>
        rl_agent.episode_count = Len(orch.episodes)

-----------------------------------------------------------------------------
(* Claims about concurrent trials (specification SpecConc)                 *)

\* the engine after the episode of thread t has run alone on `agent`
C9_EngineAfter(agent, t) ==
    LET tr == trials[t]
        pick == IF tr.r < agent.epsilon THEN tr.pick
                ELSE CHOOSE a \in SelectChoices(agent, tr.state, tr.r) : TRUE
        inp == [episode_rejected |-> FALSE, state |-> tr.state, agents_raise |-> FALSE,
                r |-> tr.r, pick |-> pick, rnd |-> tr.rnd]
    IN  run_episode(agent, << >>, NewMetrics, 1, inp).agent

\* C9: when two trials run concurrently against the same engine, the final
\* engine state equals the state reached by some sequential order of the
\* trials: no Q-value update and no counter increment is lost
C9_TrialsSerialized ==
    (threads # << >> /\ \A t \in Threads : threads[t].pc = "done") =>
        \/ rl_agent = C9_EngineAfter(C9_EngineAfter(NewOrchestratorAgent, 1), 2)
        \/ rl_agent = C9_EngineAfter(C9_EngineAfter(NewOrchestratorAgent, 2), 1)

-----------------------------------------------------------------------------
(* Claims about exploration decay (specification SpecDecay)                *)

\* C11: on an engine whose epsilon started above min_epsilon, a decay call
\* emits the 'floor reached' event exactly when that call brings epsilon from
\* above min_epsilon to min_epsilon: once, on no earlier and on no later call
C11_FloorEventOnce ==
    [][(lastOp'.op = "decay_epsilon" /\ history.start_epsilon > rl_agent.min_epsilon) =>
        (("epsilon_reached_minimum" \in lastOp'.log)
           <=> (rl_agent.epsilon > rl_agent.min_epsilon
                /\ rl_agent'.epsilon = rl_agent'.min_epsilon))]_vars

\* C12: a decay call on an engine whose epsilon equals min_epsilon leaves
\* the whole engine unchanged
C12_DecayIdempotentAtFloor ==
    [][(lastOp'.op = "decay_epsilon" /\ rl_agent.epsilon = rl_agent.min_epsilon) =>
        rl_agent' = rl_agent]_vars

-----------------------------------------------------------------------------
(* Claims about state encoding (specification SpecKey)                     *)

\* the asset-count ranges 0-2, 3-5, 6-10, 11-20, 21+ as the claim lists them
C13_AssetRange(n) ==
    IF n \in 0..2 THEN 1 ELSE IF n \in 3..5 THEN 2 ELSE IF n \in 6..10 THEN 3
    ELSE IF n \in 11..20 THEN 4 ELSE 5

\* same severity, attack type, confidence bucket and asset-count range
C13_SameBuckets(s1, s2) ==
    /\ s1.incident_severity = s2.incident_severity
    /\ s1.attack_type = s2.attack_type
    /\ (s1.confidence_level * 20) \div Milli = (s2.confidence_level * 20) \div Milli
    /\ C13_AssetRange(s1.num_affected_assets) = C13_AssetRange(s2.num_affected_assets)

\* C13: encoding a context leaves the engine unchanged and gives the key
\* that every context encoded before with the same severity, attack type,
\* confidence bucket and asset-count range got
C13_KeyOfBuckets ==
    [][lastOp'.op = "_state_to_key" =>
        /\ rl_agent' = rl_agent
        /\ \A p \in history.encoded :
              C13_SameBuckets(p.state, lastOp'.state) => p.key = lastOp'.key]_vars

\* two contexts with other tags, confidence and asset count but the same
\* buckets have been encoded
C13_Witness ==
    \E p, q \in history.encoded :
        /\ C13_SameBuckets(p.state, q.state)
        /\ p.state.mitre_techniques # q.state.mitre_techniques
        /\ p.state.confidence_level # q.state.confidence_level
        /\ p.state.num_affected_assets # q.state.num_affected_assets

-----------------------------------------------------------------------------
(* Claims about the base component and the sign of a reward                *)
(* (specification SpecReward)                                              *)

\* the base component the claimed order of tests gives an Outcome
C14_BaseComponent(o) ==
    IF o.false_positive THEN "false_positive"
    ELSE IF o.success /\ o.attack_contained THEN "success"
    ELSE IF ~o.success THEN "failure"
    ELSE "uncertainty"

\* C14: the breakdown of every reward holds exactly one of the components
\* false_positive, success, failure and uncertainty: false_positive for a
\* false positive, else success for a contained success, else failure for
\* a failed action, else uncertainty
C14_OneBaseComponent ==
    feedback # << >> =>
        DOMAIN feedback.components
            \cap {"false_positive", "success", "failure", "uncertainty"}
          = {C14_BaseComponent(outcome)}

\* C15: the reward of every Outcome with false_positive set is below zero,
\* in both reward calculators
C15_FalsePositiveNegative ==
    (feedback # << >> /\ outcome.false_positive) => feedback.reward < 0

-----------------------------------------------------------------------------
(* Claims about the outcome models (specification SpecOutcome)             *)

\* C16: every Outcome simulate_outcome returns, in both outcome models, has
\* false_positive only with a failed action at confidence below 0.5, and
\* collateral_damage only with a successful action; so it never has both
C16_FlagsConsistent ==
    outcome # << >> =>
        /\ outcome.false_positive => (~outcome.success /\ history.confidence < 500)
        /\ outcome.collateral_damage => outcome.success
        /\ ~(outcome.false_positive /\ outcome.collateral_damage)

\* a false positive was simulated by the orchestrator's outcome model
C16_Witness ==
    /\ outcome # << >>
    /\ history.module = "rl_core"
    /\ outcome.false_positive

-----------------------------------------------------------------------------
(* Claims about repeated updates (specification SpecUpdate)                *)

\* Q[state][action] of the repeated update
C17_Q(agent) == agent.q_table[_state_to_key(agent, history.state)][history.action]

\* |reward - Q[state][action]|
C17_Gap(agent) ==
    IF history.reward >= C17_Q(agent) THEN history.reward - C17_Q(agent)
    ELSE C17_Q(agent) - history.reward

\* Q[state][action] is not on the other side of reward after the update
C17_NoOvershoot ==
    /\ history.reward >= C17_Q(rl_agent) => history.reward >= C17_Q(rl_agent')
    /\ history.reward <= C17_Q(rl_agent) => history.reward <= C17_Q(rl_agent')

\* C17 as claimed: every update without a successor state makes
\* |reward - Q[state][action]| strictly smaller, 1 - alpha times what it
\* was (up to the last digit), without passing reward, and a reward above
\* Q[state][action] strictly raises it
C17_StrictContraction ==
    [][lastOp'.op = "update" =>
        /\ C17_Gap(rl_agent') < C17_Gap(rl_agent)
        /\ C17_Gap(rl_agent') - FMul(Milli - rl_agent.learning_rate, C17_Gap(rl_agent)) \in 0..1
        /\ C17_NoOvershoot
        /\ history.reward > C17_Q(rl_agent) => C17_Q(rl_agent') > C17_Q(rl_agent)]_vars

\* C17 as amended: every update without a successor state leaves
\* |reward - Q[state][action]| at 1 - alpha times what it was (up to the
\* last digit), never larger and never past reward; it is strictly smaller,
\* and a reward above Q[state][action] strictly raises it, whenever alpha
\* times the gap is not rounded to zero; at Q[state][action] = reward the
\* update changes no Q-value
C17_Contraction ==
    [][lastOp'.op = "update" =>
        /\ C17_Gap(rl_agent') <= C17_Gap(rl_agent)
        /\ C17_Gap(rl_agent') - FMul(Milli - rl_agent.learning_rate, C17_Gap(rl_agent)) \in 0..1
        /\ C17_NoOvershoot
        /\ FMul(rl_agent.learning_rate, C17_Gap(rl_agent)) # 0 =>
              /\ C17_Gap(rl_agent') < C17_Gap(rl_agent)
              /\ history.reward > C17_Q(rl_agent) => C17_Q(rl_agent') > C17_Q(rl_agent)
        /\ C17_Gap(rl_agent) = 0 => rl_agent'.q_table = rl_agent.q_table]_vars

\* a second update with a reward above the Q-value has raised it again
C17_Witness ==
    /\ lastOp.op = "update"
    /\ history.calls >= 2
    /\ history.reward > history.previous_q
    /\ C17_Q(rl_agent) > history.previous_q
    /\ C17_Q(rl_agent) < history.reward

-----------------------------------------------------------------------------
(* Claims about the learning scenario (specification SpecScenario)         *)

-----------------------------------------------------------------------------
(* Claims about simulation control (specification SpecApiFair)             *)

\* the steps of run_episode from select_action to decay_epsilon
C19_DecisionCycle == <<"select", "simulate", "reward", "update", "decay">>

\* the step of run_episode after step pc of the decision cycle
C19_StepAfter(pc) ==
    IF pc = "select" THEN "simulate"
    ELSE IF pc = "simulate" THEN "reward"
    ELSE IF pc = "reward" THEN "update"
    ELSE IF pc = "update" THEN "decay"
    ELSE "record"

\* the running episode is at a step of the decision cycle
C19_InCycle == \E i \in 1..Len(C19_DecisionCycle) : C19_DecisionCycle[i] = threads.pc

\* C19: an episode whose selection has been made gets past decay_epsilon,
\* whatever is requested meanwhile; an episode in its decision cycle leaves
\* a step only for the next one, so that outside the cycle every selection
\* has had its decay; and after a stop request was accepted while an
\* episode was running, the number of episodes started stays what it was
\* then
C19_StopBetweenTrials ==
    /\ (C19_InCycle /\ threads.pc # "select") ~> threads.pc = "record"
    /\ [](~C19_InCycle => Selections(rl_agent) = rl_agent.episode_count)
    /\ [](history.stop_at # 0 => orch.started = history.stop_at)
    /\ [][C19_InCycle => threads'.pc \in {threads.pc, C19_StepAfter(threads.pc)}]_vars

\* a stop request was accepted between select_action and decay_epsilon of
\* the first of two episodes; the episode went through its decay and the
\* simulation ended without a second episode
C19_Witness ==
    /\ orch.pc = "done"
    /\ orch.num_episodes = 2
    /\ history.stop_at = 1
    /\ history.stop_pc \in {"simulate", "reward", "update", "decay"}
    /\ rl_agent.episode_count = 1
    /\ rl_agent.update_count = 1

-----------------------------------------------------------------------------
(* Claims about the rows of the Q-table (specification Spec)               *)

\* C20: every row of the Q-table holds a Q-value for exactly the actions of
\* the engine; a row that select_action, update or decay_epsilon adds holds
\* q_init for every action when the call returns, unless the call's own
\* update wrote to it; and these calls remove no row
C20_RowsComplete ==
    /\ [](\A key \in DOMAIN rl_agent.q_table :
             DOMAIN rl_agent.q_table[key] = Elems(rl_agent.actions))
    /\ [][/\ DOMAIN rl_agent.q_table \subseteq DOMAIN rl_agent'.q_table
          /\ \A key \in DOMAIN rl_agent'.q_table \ DOMAIN rl_agent.q_table :
                \A a \in DOMAIN rl_agent'.q_table[key] :
                    rl_agent'.q_table[key][a] = rl_agent'.q_init]_vars

\* the table holds two rows, one of them changed by an update
C20_Witness ==
    /\ Cardinality(DOMAIN rl_agent.q_table) = 2
    /\ rl_agent.update_count >= 1
    /\ \E key \in DOMAIN rl_agent.q_table, a \in Elems(rl_agent.actions) :
          rl_agent.q_table[key][a] # rl_agent.q_init

-----------------------------------------------------------------------------
(* Claims about a loaded engine (specification SpecStore)                  *)

\* the engine was loaded with the action list it was saved with
C21_SameActions == rl_agent.actions = history.saved.agent.actions

\* C21: an engine loaded from a snapshot (with the action list it was saved
\* with) executes select_action without error for every state, whether its
\* key is in the loaded Q-table or not, and update without error for every
\* state whose row exists
C21_LoadedEngineUsable ==
    [][(history.phase = "loaded" /\ C21_SameActions) =>
        /\ lastOp'.op = "select_action" => ~lastOp'.raised
        /\ (lastOp'.op = "update"
              /\ _state_to_key(rl_agent, lastOp'.state) \in DOMAIN rl_agent.q_table)
             => ~lastOp'.raised]_vars

-----------------------------------------------------------------------------
(* Claims about the effects of update (specification SpecHeld)             *)

\* the keys of the successor states handed to an update call
C22_SuccessorKeys(agent, next_state) ==
    IF next_state = None THEN {} ELSE {_state_to_key(agent, next_state[1])}

\* the engine with its Q-table and update counter blanked out
C22_Rest(agent) == [agent EXCEPT !.q_table = << >>, !.update_count = 0]

\* C22: an update that returns changes Q[state][action] and update_count
\* (plus one) only: every other Q-value, epsilon, episode_count, the
\* hyperparameters and the selection counters keep their values, and the
\* only row that can appear is the row of the successor state handed in,
\* with every action at q_init; an update for a state without a row raises
\* and leaves the engine as it was
C22_UpdateFrame ==
    [][lastOp'.op = "update" =>
        LET key == _state_to_key(rl_agent, lastOp'.state)
            old == rl_agent.q_table
            new == rl_agent'.q_table
        IN  /\ (key \notin DOMAIN old) => (lastOp'.raised /\ rl_agent' = rl_agent)
            /\ lastOp'.raised => rl_agent' = rl_agent
            /\ ~lastOp'.raised =>
                 /\ rl_agent'.update_count = rl_agent.update_count + 1
                 /\ C22_Rest(rl_agent') = C22_Rest(rl_agent)
                 /\ DOMAIN old \subseteq DOMAIN new
                 /\ DOMAIN new \subseteq
                      DOMAIN old \cup C22_SuccessorKeys(rl_agent, lastOp'.next_state)
                 /\ \A k \in DOMAIN new \ DOMAIN old : new[k] = NewRow(rl_agent)
                 /\ \A k \in DOMAIN old :
                      /\ DOMAIN new[k] = DOMAIN old[k]
                      /\ \A a \in DOMAIN old[k] :
                           (k # key \/ a # lastOp'.action) => new[k][a] = old[k][a]]_vars

\* C22 happens: the first update has returned and changed its Q-value; it
\* was handed a successor state, whose row exists though select_action was
\* called once, for the other state
C22_Witness ==
    /\ lastOp.op = "update"
    /\ ~lastOp.raised
    /\ lastOp.next_state # None
    /\ _state_to_key(rl_agent, lastOp.next_state[1]) # _state_to_key(rl_agent, lastOp.state)
    /\ Selections(rl_agent) = 1
    /\ rl_agent.update_count = 1
    /\ Cardinality(DOMAIN rl_agent.q_table) = 2
    /\ rl_agent.q_table[_state_to_key(rl_agent, lastOp.state)][lastOp.action] # rl_agent.q_init

-----------------------------------------------------------------------------
(* Claims about construction (specification SpecConstruct)                 *)

\* C23: a constructed engine holds, for every hyperparameter, the value that
\* was passed (zero included) and the config default when none was passed,
\* in both engine classes
C23_ExplicitHyperparameters ==
    lastOp.op = "__init__" =>
        \A p \in DOMAIN history.args :
            rl_agent[p] = IF history.args[p] = None THEN config[p]
                          ELSE history.args[p][1]

-----------------------------------------------------------------------------
(* Claims about greedy selection (specification SpecHeld)                  *)

\* the last call was an exploitation-branch selection of the pure-greedy
\* engine (contextual_bandit) that returned
C24_GreedyExploit ==
    /\ lastOp.op = "select_action"
    /\ rl_agent.variant = "cb"
    /\ ~lastOp.raised
    /\ ~lastOp.decision.is_exploration

\* C24: on the exploitation branch of the pure-greedy selector the selected
\* action's Q-value is within 0.1 of the row's maximum, and when the maximum
\* is the only action in that band it is the action selected
C24_WithinBand ==
    C24_GreedyExploit =>
        LET q == lastOp.decision.q_values
            sel == lastOp.decision.selected_action
            band == {a \in DOMAIN q : MaxValue(q) - q[a] <= 100}
        IN  /\ sel \in band
            /\ Cardinality(band) = 1 => q[sel] = MaxValue(q)

\* C24 happens: an exploitation-branch selection returned an action whose
\* Q-value is below the row's maximum
C24_Witness ==
    /\ C24_GreedyExploit
    /\ LET q == lastOp.decision.q_values
       IN  q[lastOp.decision.selected_action] < MaxValue(q)

-----------------------------------------------------------------------------
(* Claims about returned decisions (specification SpecHeld)                *)

\* C25: an update or decay_epsilon call on the engine leaves the q_values
\* and the epsilon of every decision returned earlier as they were, and an
\* assignment to a returned decision's q_values leaves the engine's Q-table
\* as it was
C25_DecisionIsSnapshot ==
    [][/\ lastOp'.op \in {"update", "decay_epsilon"} =>
            \A i \in 1..Len(history.decisions) :
                /\ history'.decisions[i].epsilon = history.decisions[i].epsilon
                /\ Deref(rl_agent', history'.copies, history'.decisions[i].q_values)
                     = Deref(rl_agent, history.copies, history.decisions[i].q_values)
       /\ lastOp'.op = "decision.q_values[a] = v" =>
            rl_agent'.q_table = rl_agent.q_table]_vars

\* C25 happens: the caller holds a decision whose state's row and the
\* engine's epsilon have since been changed by an update and a decay, and
\* has assigned to the decision's q_values
C25_Witness ==
    /\ Len(history.decisions) = 1
    /\ LET d == history.decisions[1]
           row == rl_agent.q_table[_state_to_key(rl_agent, d.state)]
       IN  /\ d.edited
           /\ rl_agent.update_count > 0
           /\ row[d.selected_action] # rl_agent.q_init
           /\ rl_agent.epsilon < d.epsilon
           /\ Deref(rl_agent, history.copies, d.q_values) # row

-----------------------------------------------------------------------------
(* Claims about stop and pause requests (specification SpecApi)            *)

\* C26: once a stop request has been accepted the simulation's status is
\* 'stopped' and no later step, of the background task or of a handler,
\* changes it
C26_StoppedForever ==
    [][orch.status = "stopped" => orch'.status = "stopped"]_vars

\* a handler answered the step: the flags and the status are its to change
C27_ByHandler ==
    lastOp'.op \in {"pause_simulation", "resume_simulation", "stop_simulation"}

\* C27: a pause or stop request accepted after start_simulation registered
\* the simulation, also before the background task has begun, is honoured:
\* a step of the task keeps a pending paused or stopped flag and does not
\* set the status back to 'running', no episode starts while the stopped
\* flag is set, and none starts while the paused flag is set
C27_PendingRequestHonoured ==
    [][/\ (orch.stopped \/ orch.paused) => orch'.started = orch.started
       /\ (orch.pc = "queued" /\ ~C27_ByHandler) =>
            /\ orch.stopped => orch'.stopped
            /\ orch.paused => orch'.paused
            /\ orch.status # "running" => orch'.status # "running"]_vars

-----------------------------------------------------------------------------
(* Claims about the orchestrator's metrics (specification SpecSim)         *)

\* between episodes the four counts of recorded episodes agree
C28_CountsAgree ==
    LET m == orch.metrics
    IN  /\ m.total_episodes = Len(orch.episodes)
        /\ m.total_episodes = m.successful_defenses + m.failed_defenses
        /\ m.total_episodes = Len(m.reward_history)

\* C28: when run_simulation(n) has returned, metrics.total_episodes and
\* len(episodes) are n; and between episodes total_episodes, len(episodes),
\* successful_defenses + failed_defenses and len(reward_history) are equal,
\* also after an episode that aborted with an error
C28_EpisodeCounts ==
    /\ C28_CountsAgree
    /\ orch.pc = "done" =>
         /\ orch.metrics.total_episodes = orch.num_episodes
         /\ Len(orch.episodes) = orch.num_episodes

-----------------------------------------------------------------------------
(* Claims about the training signal (specification SpecShaped)             *)

\* C29: for every Outcome an outcome model produces, the reward a default
\* calculator returns is above zero with a 'success' component when success
\* is true, and below zero with a 'failure' or 'false_positive' component
\* when success is false
C29_RewardSignFollowsSuccess ==
    feedback # << >> =>
        IF outcome.success
        THEN /\ feedback.reward > 0
             /\ "success" \in DOMAIN feedback.components
        ELSE /\ feedback.reward < 0
             /\ {"failure", "false_positive"} \cap DOMAIN feedback.components # {}

\* C29 happens: a contained attack with collateral damage and the longest
\* remediation time of a slow, non-aggressive action was rewarded by the
\* calculator of reward_calculator.py
C29_Witness ==
    /\ feedback # << >>
    /\ calculator = "reward_calculator"
    /\ history.module = "reward_calculator"
    /\ outcome.success
    /\ outcome.collateral_damage
    /\ outcome.time_to_remediate > 30 * Milli
    /\ feedback.reward < 400

\* C30: after every completed episode metrics.detection_rate is the
\* fraction of the recorded episodes, the one just completed included,
\* whose incident confidence is above 0.5
C30_DetectionRate ==
    (lastOp.op = "run_episode" /\ lastOp.completed) =>
        orch.metrics.detection_rate
            = DivInt(Detected(orch.episodes) * Milli, Len(orch.episodes))

====
